---- MODULE Spec2Model ----
(***************************************************************************)
(* Verdant Vision 3D Planner: the coordination layer (js/app.js), the      *)
(* drawing mode of the 2D sketch (js/p5-sketch.js), the scene-graph        *)
(* bookkeeping of the 3D view (js/three-scene.js) and the button           *)
(* visibility kept by js/ui-controls.js.                                   *)
(*                                                                         *)
(* Lengths are whole numbers of 1/60 ft, so that every length the code     *)
(* computes from its defaults (173.2 ft, halves of 0.5 ft, a pan clamp of  *)
(* width / 1.5) is an integer.  null is the empty sequence where the code  *)
(* holds an object or null (customHouse, the saved file).                  *)
(***************************************************************************)
EXTENDS Integers, Sequences, FiniteSets, TLC

UnitsPerFt == 12 * 5
Ft(n) == n * UnitsPerFt

Min(a, b) == IF a <= b THEN a ELSE b
Max(a, b) == IF a >= b THEN a ELSE b
Abs(v) == IF v < 0 THEN 0 - v ELSE v

(* ------------------------------ bounds -------------------------------- *)
\* Longest in-progress polygon in the drawing specification.
MaxPts == 5

(* ------------------------- program constants -------------------------- *)
DEFAULT_LOT_WIDTH_FT == 10392
DEFAULT_LOT_DEPTH_FT == 10392
GRID_SIZE_FT == Ft(1)
DEFAULT_CUSTOM_HOUSE_WALL_HEIGHT == Ft(15)
DEFAULT_CUSTOM_HOUSE_ROOF_TYPE == "flat"
DEFAULT_CUSTOM_HOUSE_WALL_COLOR == "#d3c1a4"

(* --------------------------- JS numbers ------------------------------- *)
\* A double read from an input field: NaN, or v + e * eps where eps is a
\* magnitude below half an ulp of 360 (1e-20, say).  Only 0 carries e # 0.
Num(v) == [k |-> "num", v |-> v, e |-> 0]
NaN == [k |-> "nan", v |-> 0, e |-> 0]
NegTiny == [k |-> "num", v |-> 0, e |-> -1]
isNaN(n) == n.k = "nan"
\* n || dflt for a length: NaN and 0 are falsy.
OrDefault(n, dflt) == IF isNaN(n) \/ (n.v = 0 /\ n.e = 0) THEN dflt ELSE n.v

(* ------------------------- polygon helpers ---------------------------- *)
Pt(x, y) == [x |-> x, y |-> y]

RECURSIVE SumUpTo(_, _)
SumUpTo(f, n) == IF n = 0 THEN 0 ELSE f[n] + SumUpTo(f, n - 1)

getPolygonSignedArea(points) ==
    LET n == Len(points)
        term == [i \in 1..n |->
                   LET p1 == points[i]
                       p2 == points[(i % n) + 1]
                   IN  (p1.x * p2.y) - (p2.x * p1.y)]
    IN  SumUpTo(term, n) \div 2

Reverse(s) == [i \in 1..Len(s) |-> s[Len(s) + 1 - i]]

\* ensureWindingOrder with the reversal left out.
ensureWindingOrder_noReverse(points, targetOrder) == points

ensureWindingOrder(points, targetOrder) ==
    IF Len(points) < 3 THEN points
    ELSE LET area == getPolygonSignedArea(points)
         IN  IF targetOrder = "ccw" /\ area < 0 THEN Reverse(points)
             ELSE IF targetOrder = "cw" /\ area > 0 THEN Reverse(points)
             ELSE points

orientation(p, q, r) ==
    LET val == (q.y - p.y) * (r.x - q.x) - (q.x - p.x) * (r.y - q.y)
    IN  IF val = 0 THEN 0 ELSE IF val > 0 THEN 1 ELSE 2

onSegment(p, q, r) ==
    /\ q.x <= Max(p.x, r.x) /\ q.x >= Min(p.x, r.x)
    /\ q.y <= Max(p.y, r.y) /\ q.y >= Min(p.y, r.y)

segmentsIntersect(p1, p2, p3, p4) ==
    LET o1 == orientation(p1, p2, p3)
        o2 == orientation(p1, p2, p4)
        o3 == orientation(p3, p4, p1)
        o4 == orientation(p3, p4, p2)
    IN  \/ (o1 # o2 /\ o3 # o4)
        \/ (o1 = 0 /\ onSegment(p1, p3, p2))
        \/ (o2 = 0 /\ onSegment(p1, p4, p2))
        \/ (o3 = 0 /\ onSegment(p3, p1, p4))
        \/ (o4 = 0 /\ onSegment(p3, p2, p4))

\* isLotShapeValidP5 without the test that skips the closing adjacent pair.
isLotShapeValidP5_noSkip(polygon) ==
    LET n == Len(polygon)
        V(k) == polygon[(k % n) + 1]
    IN  IF n < 3 THEN FALSE
        ELSE \A i \in 0..(n - 1) : \A j \in (i + 2)..(n - 1) :
                 ~segmentsIntersect(V(i), V(i + 1), V(j), V(j + 1))

\* Edge i (0-based) of the closed polygon runs from vertex i to vertex i+1.
isLotShapeValidP5(polygon) ==
    LET n == Len(polygon)
        V(k) == polygon[(k % n) + 1]
    IN  IF n < 3 THEN FALSE
        ELSE \A i \in 0..(n - 1) : \A j \in (i + 2)..(n - 1) :
                 \/ (j + 1) % n = i
                 \/ ~segmentsIntersect(V(i), V(i + 1), V(j), V(j + 1))

isHouseShapeValidP5(polygon) == isLotShapeValidP5(polygon)

PolyMinX(pts) == CHOOSE m \in {pts[i].x : i \in 1..Len(pts)} :
                     \A i \in 1..Len(pts) : m <= pts[i].x
PolyMaxX(pts) == CHOOSE m \in {pts[i].x : i \in 1..Len(pts)} :
                     \A i \in 1..Len(pts) : m >= pts[i].x
PolyMinY(pts) == CHOOSE m \in {pts[i].y : i \in 1..Len(pts)} :
                     \A i \in 1..Len(pts) : m <= pts[i].y
PolyMaxY(pts) == CHOOSE m \in {pts[i].y : i \in 1..Len(pts)} :
                     \A i \in 1..Len(pts) : m >= pts[i].y

(* ------------------------------ state --------------------------------- *)
VARIABLES
    currentView,                 \* app.js: '2D' or '3D'
    elements,                    \* app.js: the placed elements, in order
    nextElementId,               \* app.js
    p5PanOffset,                 \* app.js: pan of the 2D view
    selectedElement,             \* app.js: reference to the selected object
    lotConfig,                   \* app.js
    currentDrawingMode,          \* app.js: "null", "lot_polygon", "home_builder_polygon"
    customHouse,                 \* app.js: <<>> (null) or <<house>>
    isInDrawingModeP5,           \* p5-sketch.js
    currentDrawingPolygonTypeP5, \* p5-sketch.js
    currentPolygonPointsFt,      \* p5-sketch.js: in-progress vertices
    isShapeValidPreviewP5,       \* p5-sketch.js
    sceneNodes,                  \* three-scene.js: every group ever created
    lotDrawUI,                   \* ui-controls.js: lot finish/cancel buttons shown
    houseDrawUI,                 \* ui-controls.js: house finish/cancel buttons shown
    groundPlane,                 \* three-scene.js: the lot the ground mesh was built from
    dragP5,                      \* p5-sketch.js: <<>>, or the drag in progress
    savedFile,                   \* the file saveDesign last downloaded, <<>> if none
    currentSeason,               \* app.js
    modelCache,                  \* three-scene.js: modelKey -> state of its promise
    last,                        \* history: the handler that ran last and what it reported
    savedDesign,                 \* history: the design as it was when savedFile was written
    maxAssignedId                \* history: the highest id given out so far, -1 if none

vars == <<currentView, elements, nextElementId, p5PanOffset, selectedElement,
          lotConfig, currentDrawingMode, customHouse, isInDrawingModeP5,
          currentDrawingPolygonTypeP5, currentPolygonPointsFt,
          isShapeValidPreviewP5, sceneNodes, groundPlane, dragP5, lotDrawUI,
          houseDrawUI, savedFile, currentSeason, modelCache, last, savedDesign,
          maxAssignedId>>

\* The program state as one record, so that a handler is a function from the
\* state before it to the state after it and handlers compose as in the code.
\* alert is the message the handler showed ("" for none).
Cur == [currentView |-> currentView, elements |-> elements,
        nextElementId |-> nextElementId, p5PanOffset |-> p5PanOffset,
        selectedElement |-> selectedElement, lotConfig |-> lotConfig,
        currentDrawingMode |-> currentDrawingMode, customHouse |-> customHouse,
        isInDrawingModeP5 |-> isInDrawingModeP5,
        currentDrawingPolygonTypeP5 |-> currentDrawingPolygonTypeP5,
        currentPolygonPointsFt |-> currentPolygonPointsFt,
        isShapeValidPreviewP5 |-> isShapeValidPreviewP5,
        sceneNodes |-> sceneNodes, groundPlane |-> groundPlane,
        dragP5 |-> dragP5, lotDrawUI |-> lotDrawUI,
        houseDrawUI |-> houseDrawUI, savedFile |-> savedFile,
        currentSeason |-> currentSeason, modelCache |-> modelCache, alert |-> ""]

NoRef == 0
NoInput == Num(0)

\* What a step records about itself: the handler, its mode, type or species
\* argument, the numeric inputs it read, the scene node of the object it acted
\* on, the polygon a finish read from the sketch, and the alert it showed.
Ran(op, arg, d, d2, ref, s) ==
    [op |-> op, arg |-> arg, d |-> d, d2 |-> d2, ref |-> ref, pts |-> <<>>,
     alert |-> s.alert]

Commit(s, ran) ==
    /\ currentView' = s.currentView
    /\ elements' = s.elements
    /\ nextElementId' = s.nextElementId
    /\ p5PanOffset' = s.p5PanOffset
    /\ selectedElement' = s.selectedElement
    /\ lotConfig' = s.lotConfig
    /\ currentDrawingMode' = s.currentDrawingMode
    /\ customHouse' = s.customHouse
    /\ isInDrawingModeP5' = s.isInDrawingModeP5
    /\ currentDrawingPolygonTypeP5' = s.currentDrawingPolygonTypeP5
    /\ currentPolygonPointsFt' = s.currentPolygonPointsFt
    /\ isShapeValidPreviewP5' = s.isShapeValidPreviewP5
    /\ sceneNodes' = s.sceneNodes
    /\ groundPlane' = s.groundPlane
    /\ dragP5' = s.dragP5
    /\ lotDrawUI' = s.lotDrawUI
    /\ houseDrawUI' = s.houseDrawUI
    /\ savedFile' = s.savedFile
    /\ currentSeason' = s.currentSeason
    /\ modelCache' = s.modelCache
    /\ last' = ran
    /\ maxAssignedId' = Max(maxAssignedId, s.nextElementId - 1)

RectLot(w, d) ==
    [width |-> w, depth |-> d, isCustomShape |-> FALSE, customShapePoints |-> <<>>]

NullSel == [kind |-> "null", id |-> -1, node |-> NoRef]
UndefinedSel == [kind |-> "undefined", id |-> -1, node |-> NoRef]
RefTo(obj) == [kind |-> obj.type, id |-> obj.id, node |-> obj.node]

\* The state main() leaves, as a record.
Start ==
    [currentView |-> "2D", elements |-> <<>>, nextElementId |-> 0,
     p5PanOffset |-> Pt(0, 0), selectedElement |-> NullSel,
     lotConfig |-> RectLot(DEFAULT_LOT_WIDTH_FT, DEFAULT_LOT_DEPTH_FT),
     currentDrawingMode |-> "null", customHouse |-> <<>>,
     isInDrawingModeP5 |-> FALSE, currentDrawingPolygonTypeP5 |-> "null",
     currentPolygonPointsFt |-> <<>>, isShapeValidPreviewP5 |-> TRUE,
     sceneNodes |-> <<>>,
     groundPlane |-> RectLot(DEFAULT_LOT_WIDTH_FT, DEFAULT_LOT_DEPTH_FT),
     dragP5 |-> <<>>, lotDrawUI |-> FALSE, houseDrawUI |-> FALSE, savedFile |-> <<>>,
     currentSeason |-> "summer", modelCache |-> <<>>, alert |-> ""]

Init ==
    /\ currentView = Start.currentView
    /\ elements = Start.elements
    /\ nextElementId = Start.nextElementId
    /\ p5PanOffset = Start.p5PanOffset
    /\ selectedElement = Start.selectedElement
    /\ lotConfig = Start.lotConfig
    /\ currentDrawingMode = Start.currentDrawingMode
    /\ customHouse = Start.customHouse
    /\ isInDrawingModeP5 = Start.isInDrawingModeP5
    /\ currentDrawingPolygonTypeP5 = Start.currentDrawingPolygonTypeP5
    /\ currentPolygonPointsFt = Start.currentPolygonPointsFt
    /\ isShapeValidPreviewP5 = Start.isShapeValidPreviewP5
    /\ sceneNodes = Start.sceneNodes
    /\ groundPlane = Start.groundPlane
    /\ dragP5 = Start.dragP5
    /\ lotDrawUI = Start.lotDrawUI
    /\ houseDrawUI = Start.houseDrawUI
    /\ savedFile = Start.savedFile
    /\ currentSeason = Start.currentSeason
    /\ modelCache = Start.modelCache
    /\ last = [op |-> "main", arg |-> "", d |-> NoInput, d2 |-> NoInput,
               ref |-> NoRef, pts |-> <<>>, alert |-> ""]
    /\ savedDesign = <<>>
    /\ maxAssignedId = -1

(* ------------------------- ui-controls.js ----------------------------- *)
updateLotConfigUI(s, isDrawingLot) == [s EXCEPT !.lotDrawUI = isDrawingLot]
updateHomeBuilderUI(s, isDrawingHouse) == [s EXCEPT !.houseDrawUI = isDrawingHouse]
toggleView(view) == IF view = "2D" THEN "3D" ELSE "2D"

(* --------------------- p5-sketch.js drawing mode ---------------------- *)
setDrawingModeP5(s, isDrawing, mode) ==
    LET s1 == [s EXCEPT !.isInDrawingModeP5 = isDrawing,
                        !.currentDrawingPolygonTypeP5 =
                            IF isDrawing THEN mode ELSE "null"]
    IN  IF ~isDrawing
        THEN [s1 EXCEPT !.currentPolygonPointsFt = <<>>,
                        !.isShapeValidPreviewP5 = TRUE]
        ELSE s1

clearDrawingP5(s) ==
    [s EXCEPT !.currentPolygonPointsFt = <<>>, !.isShapeValidPreviewP5 = TRUE]

getCurrentLotPolygonP5(s) == s.currentPolygonPointsFt
getCurrentHousePolygonP5(s) == s.currentPolygonPointsFt

\* handleP5MousePressed while the sketch is in drawing mode: the click, snapped
\* to the 1 ft grid, becomes the next vertex.
pressWhileDrawing(s, snapped) ==
    LET pts == Append(s.currentPolygonPointsFt, snapped)
        s1 == [s EXCEPT !.currentPolygonPointsFt = pts]
    IN  IF Len(pts) > 1
        THEN [s1 EXCEPT !.isShapeValidPreviewP5 =
                 IF s.currentDrawingPolygonTypeP5 = "lot_polygon"
                 THEN isLotShapeValidP5(pts) ELSE isHouseShapeValidP5(pts)]
        ELSE s1

(* ------------------------ three-scene.js nodes ------------------------ *)
\* A group of the scene graph: what it is tagged with (userData), whether its
\* parent is the scene, and how often its geometries and materials were disposed.
\* position is (x, z) of the group, (0, 0) until position.set. children are
\* the objects added to the group, awaiting the modelKeys of the loads that
\* were started for the group and have not come back.
NewNode(tag, id) ==
    [tag |-> tag, id |-> id, inScene |-> TRUE, disposed |-> 0, position |-> Pt(0, 0),
     children |-> <<>>, awaiting |-> <<>>]

\* A procedural mesh, a clone of the loaded model, and the placeholder a load
\* function builds in its catch (for a tree: canopy and trunk, taken as one).
Mesh == [kind |-> "mesh", key |-> <<>>]
Model(modelKey) == [kind |-> "model", key |-> modelKey]
Fallback(modelKey) == [kind |-> "fallback", key |-> modelKey]

\* threeX and threeZ of addElementToThree and addCustomHouseToThree.
ThreePlacement(lotCfg, data) ==
    LET pts == lotCfg.customShapePoints
        lotCenterX == IF lotCfg.isCustomShape THEN (PolyMinX(pts) + PolyMaxX(pts)) \div 2
                      ELSE lotCfg.width \div 2
        lotCenterZ == IF lotCfg.isCustomShape THEN (PolyMinY(pts) + PolyMaxY(pts)) \div 2
                      ELSE lotCfg.depth \div 2
    IN  Pt(data.x + data.width \div 2 - lotCenterX, data.y + data.depth \div 2 - lotCenterZ)

\* removeCustomHouseFromThree without the test that the node is still attached.
removeCustomHouseFromThree_noParentCheck(s, node) ==
    IF node # NoRef
    THEN [s EXCEPT !.sceneNodes[node].inScene = FALSE, !.sceneNodes[node].disposed = @ + 1]
    ELSE s

removeCustomHouseFromThree(s, node) ==
    IF node # NoRef /\ s.sceneNodes[node].inScene
    THEN [s EXCEPT !.sceneNodes[node].inScene = FALSE,
                   !.sceneNodes[node].disposed = @ + 1]
    ELSE s

\* The wall mesh, and a roof mesh for the two roof types the function knows.
createCustomHouseMesh(houseData) ==
    IF houseData.roofType \in {"flat", "gabled"} THEN <<Mesh, Mesh>> ELSE <<Mesh>>

\* houseData is s.customHouse[1]; the new group is linked back to it.
addCustomHouseToThree(s) ==
    LET s1 == removeCustomHouseFromThree(s, s.customHouse[1].node)
        nodes == Append(s1.sceneNodes,
                        [NewNode("custom_house", s.customHouse[1].id) EXCEPT
                            !.children = createCustomHouseMesh(s.customHouse[1]),
                            !.position = ThreePlacement(s.lotConfig, s.customHouse[1])])
    IN  [s1 EXCEPT !.sceneNodes = nodes, !.customHouse[1].node = Len(nodes)]

updateGroundPlane(s) == [s EXCEPT !.groundPlane = s.lotConfig]

\* removeElementFromThree that also gives up the loads the group waits for.
removeElementFromThree_cancelling(s, node) ==
    IF node = NoRef THEN s
    ELSE [s EXCEPT !.sceneNodes[node].inScene = FALSE,
                   !.sceneNodes[node].disposed = @ + 1,
                   !.sceneNodes[node].awaiting = <<>>]

removeElementFromThree(s, node) ==
    IF node = NoRef THEN s
    ELSE [s EXCEPT !.sceneNodes[node].inScene = FALSE,
                   !.sceneNodes[node].disposed = @ + 1]

(* ------------------- three-scene.js: model loading -------------------- *)
PLANT_MODEL_PATH == "assets/models/plants/"
HOUSE_MODEL_PATH == "assets/models/other/houses/"

\* modelKey of the three load functions. Every plant of the library is given
\* modelFile "tomato_plant.glb" (app.js 445).
HouseModelKey == <<HOUSE_MODEL_PATH, "house_v1.glb">>
PlantModelKey == <<PLANT_MODEL_PATH, "tomato_plant.glb">>
TreeModelKey(treeData, season) ==
    <<IF treeData.species = "" THEN "generic_deciduous" ELSE treeData.species, season>>

\* The part of a load function after its await, without the catch: a rejected
\* promise leaves the group as it is.
afterAwait_noCatch(s, node, modelKey, outcome) ==
    IF outcome = "fulfilled"
    THEN [s EXCEPT !.sceneNodes[node].children = Append(@, Model(modelKey))]
    ELSE s

\* The part of a load function after its await: group.add(model), or the catch
\* with its placeholder when the promise is rejected. The group is the one the
\* call was given; whether it is still in the scene is not looked at.
afterAwait(s, node, modelKey, outcome) ==
    IF outcome = "fulfilled"
    THEN [s EXCEPT !.sceneNodes[node].children = Append(@, Model(modelKey))]
    ELSE [s EXCEPT !.sceneNodes[node].children = Append(@, Fallback(modelKey))]

\* The common body of the load functions up to the await: the group is emptied,
\* the promise is taken from the cache or loadAsync is called and its promise
\* cached. A promise that is already settled resumes the function in a
\* microtask, before any other event; nothing in the calling handlers touches
\* the group in between, so the resumption is taken here.
awaitModel(s, node, modelKey) ==
    LET s1 == [s EXCEPT !.sceneNodes[node].children = <<>>]
    IN  IF modelKey \in DOMAIN s1.modelCache
        THEN IF s1.modelCache[modelKey] = "pending"
             THEN [s1 EXCEPT !.sceneNodes[node].awaiting = Append(@, modelKey)]
             ELSE afterAwait(s1, node, modelKey, s1.modelCache[modelKey])
        ELSE [s1 EXCEPT
                !.modelCache = [k \in DOMAIN @ \cup {modelKey} |->
                                   IF k = modelKey THEN "pending" ELSE @[k]],
                !.sceneNodes[node].awaiting = Append(@, modelKey)]

loadAndConfigureHouseModel(s, node) == awaitModel(s, node, HouseModelKey)
loadAndConfigurePlantModel(s, node) == awaitModel(s, node, PlantModelKey)
loadAndConfigureTreeModel(s, node, treeData, season) ==
    awaitModel(s, node, TreeModelKey(treeData, season))

Occurrences(seq, v) == Len(SelectSeq(seq, LAMBDA x : x = v))

\* The promise of modelKey settles: every load function waiting for it resumes.
RECURSIVE Resume(_, _, _, _, _)
Resume(s, node, modelKey, outcome, times) ==
    IF times = 0 THEN s
    ELSE Resume(afterAwait(s, node, modelKey, outcome), node, modelKey, outcome, times - 1)

RECURSIVE ResumeAll(_, _, _, _)
ResumeAll(s, modelKey, outcome, node) ==
    IF node > Len(s.sceneNodes) THEN s
    ELSE LET waiting == Occurrences(s.sceneNodes[node].awaiting, modelKey)
             s1 == Resume(s, node, modelKey, outcome, waiting)
             s2 == [s1 EXCEPT !.sceneNodes[node].awaiting =
                                  SelectSeq(@, LAMBDA k : k # modelKey)]
         IN  ResumeAll(s2, modelKey, outcome, node + 1)

settlePromise(s, modelKey, outcome) ==
    ResumeAll([s EXCEPT !.modelCache[modelKey] = outcome], modelKey, outcome, 1)

\* updateSeasonalAssetsInThree: every element flagged isTree that has a group
\* gets a new load for newSeason.
RECURSIVE updateSeasonalAssetsInThree(_, _, _)
updateSeasonalAssetsInThree(s, newSeason, i) ==
    IF i > Len(s.elements) THEN s
    ELSE LET el == s.elements[i]
         IN  updateSeasonalAssetsInThree(
                 IF el.isTree /\ el.node # NoRef
                 THEN loadAndConfigureTreeModel(s, el.node, el, newSeason)
                 ELSE s,
                 newSeason, i + 1)

(* ----------------------- app.js: drawing mode ------------------------- *)
IdNull == [k |-> "null", v |-> -1]
IdNum(n) == [k |-> "num", v |-> n]
IdHouse(n) == [k |-> "house", v |-> n]

\* elements.find(el => el.id === id): the index of the first match, 0 if none.
FindIndex(elems, id) ==
    IF \E i \in 1..Len(elems) : elems[i].id = id
    THEN CHOOSE i \in 1..Len(elems) :
             /\ elems[i].id = id
             /\ \A j \in 1..(i - 1) : elems[j].id # id
    ELSE 0

handleElementSelect(s, elementId) ==
    IF s.currentDrawingMode # "null" /\ elementId.k # "null" THEN s
    ELSE IF elementId.k = "null" THEN [s EXCEPT !.selectedElement = NullSel]
    ELSE IF elementId.k = "house"
         THEN [s EXCEPT !.selectedElement =
                  IF s.customHouse = <<>> THEN NullSel ELSE RefTo(s.customHouse[1])]
    ELSE LET i == FindIndex(s.elements, elementId.v)
         IN  [s EXCEPT !.selectedElement =
                  IF i = 0 THEN UndefinedSel ELSE RefTo(s.elements[i])]

\* cancelDrawing without the two calls into the sketch.
cancelDrawing_sketchUntouched(s) ==
    LET s2 == IF s.currentDrawingMode = "lot_polygon"
              THEN updateLotConfigUI(s, FALSE)
              ELSE IF s.currentDrawingMode = "home_builder_polygon"
              THEN updateHomeBuilderUI(s, FALSE)
              ELSE s
    IN  [s2 EXCEPT !.currentDrawingMode = "null"]

cancelDrawing(s) ==
    LET s1 == clearDrawingP5(setDrawingModeP5(s, FALSE, "null"))
        s2 == IF s1.currentDrawingMode = "lot_polygon"
              THEN updateLotConfigUI(s1, FALSE)
              ELSE IF s1.currentDrawingMode = "home_builder_polygon"
              THEN updateHomeBuilderUI(s1, FALSE)
              ELSE s1
    IN  [s2 EXCEPT !.currentDrawingMode = "null"]

\* onToggleView without the cancelDrawing of an active drawing mode.
onToggleView_noCancel(s) == [s EXCEPT !.currentView = toggleView(s.currentView)]

onToggleView(s) ==
    LET s1 == [s EXCEPT !.currentView = toggleView(s.currentView)]
    IN  IF s1.currentDrawingMode # "null" THEN cancelDrawing(s1) ELSE s1

startDrawingMode(s, mode) ==
    LET s1 == IF s.currentDrawingMode # "null" THEN cancelDrawing(s) ELSE s
        s2 == setDrawingModeP5([s1 EXCEPT !.currentDrawingMode = mode], TRUE, mode)
        s3 == IF mode = "lot_polygon" THEN updateLotConfigUI(s2, TRUE)
              ELSE IF mode = "home_builder_polygon" THEN updateHomeBuilderUI(s2, TRUE)
              ELSE s2
    IN  \* toggleViewBtn.click() runs onToggleView before startDrawingMode returns
        IF s3.currentView # "2D" THEN onToggleView(s3) ELSE s3

\* The custom house finishDrawingMode builds from the drawn polygon and the
\* three custom-house input fields.
NewCustomHouse(s, polygon, wallHeightInput, roofTypeInput, wallColorInput) ==
    LET minX == PolyMinX(polygon)
        minY == PolyMinY(polygon)
        houseWidth == PolyMaxX(polygon) - minX
        houseDepth == PolyMaxY(polygon) - minY
        houseCenterX == minX + houseWidth \div 2
        houseCenterY == minY + houseDepth \div 2
        wallHeight == OrDefault(wallHeightInput, DEFAULT_CUSTOM_HOUSE_WALL_HEIGHT)
    IN  [id |-> s.nextElementId, type |-> "custom_house",
         x |-> houseCenterX - houseWidth \div 2,
         y |-> houseCenterY - houseDepth \div 2,
         width |-> houseWidth, depth |-> houseDepth, rotation |-> Num(0),
         outline |-> [i \in 1..Len(polygon) |->
                         Pt(polygon[i].x - houseCenterX, polygon[i].y - houseCenterY)],
         wallHeight |-> wallHeight,
         roofType |-> IF roofTypeInput = "" THEN DEFAULT_CUSTOM_HOUSE_ROOF_TYPE
                      ELSE roofTypeInput,
         wallColor |-> IF wallColorInput = "" THEN DEFAULT_CUSTOM_HOUSE_WALL_COLOR
                       ELSE wallColorInput,
         height |-> wallHeight, node |-> NoRef]

\* The valid branch for a lot polygon (app.js 286-293).
acceptLotPolygon(s, polygon) ==
    updateGroundPlane(
        [s EXCEPT !.lotConfig =
            [width |-> 0, depth |-> 0, isCustomShape |-> TRUE,
             customShapePoints |-> ensureWindingOrder(polygon, "ccw")]])

\* The valid branch for a house polygon (app.js 301-342).  handleElementSelect
\* runs while currentDrawingMode is still set.
acceptHousePolygon(s, polygon, wallHeightInput, roofTypeInput, wallColorInput) ==
    LET ccw == ensureWindingOrder(polygon, "ccw")
        s1 == IF s.customHouse # <<>>
              THEN removeCustomHouseFromThree(s, s.customHouse[1].node)
              ELSE s
        s2 == [s1 EXCEPT
                 !.customHouse = <<NewCustomHouse(s1, ccw, wallHeightInput,
                                     roofTypeInput, wallColorInput)>>,
                 !.nextElementId = @ + 1]
        s3 == addCustomHouseToThree(s2)
    IN  handleElementSelect(s3, IdHouse(s3.customHouse[1].id))

\* finishDrawingMode without the return that follows the alert.
finishDrawingMode_noReturn(s, mode, wallHeightInput, roofTypeInput, wallColorInput) ==
    LET polygon == getCurrentLotPolygonP5(s)
    IN  IF Len(polygon) >= 3 /\ isLotShapeValidP5(polygon)
        THEN cancelDrawing(
                 IF mode = "lot_polygon" THEN acceptLotPolygon(s, polygon)
                 ELSE acceptHousePolygon(s, polygon, wallHeightInput, roofTypeInput,
                                         wallColorInput))
        ELSE cancelDrawing([s EXCEPT !.alert = "Invalid shape."])

finishDrawingMode(s, mode, wallHeightInput, roofTypeInput, wallColorInput) ==
    IF mode = "lot_polygon"
    THEN LET polygon == getCurrentLotPolygonP5(s)
         IN  IF Len(polygon) >= 3 /\ isLotShapeValidP5(polygon)
             THEN cancelDrawing(acceptLotPolygon(s, polygon))
             ELSE [s EXCEPT !.alert = "Invalid lot shape."]
    ELSE LET polygon == getCurrentHousePolygonP5(s)
         IN  IF Len(polygon) >= 3 /\ isHouseShapeValidP5(polygon)
             THEN cancelDrawing(acceptHousePolygon(s, polygon, wallHeightInput,
                                                   roofTypeInput, wallColorInput))
             ELSE [s EXCEPT !.alert = "Invalid house shape."]

\* handleUpdateLotRect without the line that empties customShapePoints.
handleUpdateLotRect_keepsPoints(s, newWidth, newDepth) ==
    IF isNaN(newWidth) \/ isNaN(newDepth) \/ newWidth.v <= 0 \/ newDepth.v <= 0
    THEN [s EXCEPT !.alert = "Please enter valid positive numbers for lot width and depth."]
    ELSE updateGroundPlane([s EXCEPT !.lotConfig.width = newWidth.v,
                                     !.lotConfig.depth = newDepth.v,
                                     !.lotConfig.isCustomShape = FALSE])

handleUpdateLotRect(s, newWidth, newDepth) ==
    IF isNaN(newWidth) \/ isNaN(newDepth) \/ newWidth.v <= 0 \/ newDepth.v <= 0
    THEN [s EXCEPT !.alert = "Please enter valid positive numbers for lot width and depth."]
    ELSE updateGroundPlane([s EXCEPT !.lotConfig = RectLot(newWidth.v, newDepth.v)])

(* ------------------------- app.js: elements --------------------------- *)
ROTATABLE_ELEMENT_TYPES ==
    {"house", "shed", "raised_bed", "compost_bin", "bench", "patio", "fire_pit",
     "rain_barrel", "custom_house"}

\* tree-models-manifest.js: defaultHeightFt and defaultCanopyFt per species.
treeManifest ==
    [sugar_maple |-> [defaultHeightFt |-> Ft(50), defaultCanopyFt |-> Ft(35)],
     white_oak |-> [defaultHeightFt |-> Ft(70), defaultCanopyFt |-> Ft(60)],
     generic_deciduous |-> [defaultHeightFt |-> Ft(40), defaultCanopyFt |-> Ft(30)],
     generic_evergreen |-> [defaultHeightFt |-> Ft(45), defaultCanopyFt |-> Ft(20)]]

\* specificData of handleAddElement; 0 stands for an absent (undefined) field.
\* spacing and matureHeight are inches, canopy and height are lengths.
NoData == [species |-> "", spacing |-> 0, matureHeight |-> 0, canopy |-> 0, height |-> 0]

Or(v, dflt) == IF v = 0 THEN dflt ELSE v
InchesToFt(inches) == inches * (UnitsPerFt \div 12)

\* The switch of handleAddElement: width, depth and height per type.
Footprint(type, specificData) ==
    CASE type = "house" -> [width |-> Ft(40), depth |-> Ft(50), height |-> Ft(15)]
      [] type = "shed" -> [width |-> Ft(10), depth |-> Ft(10), height |-> Ft(8)]
      [] type = "raised_bed" -> [width |-> Ft(8), depth |-> Ft(4), height |-> Ft(3) \div 2]
      [] type = "inground_row" -> [width |-> Ft(20), depth |-> Ft(4), height |-> Ft(1) \div 4]
      [] type = "compost_bin" -> [width |-> Ft(4), depth |-> Ft(4), height |-> Ft(3)]
      [] type = "plant" ->
            [width |-> InchesToFt(Or(specificData.spacing, 6)),
             depth |-> InchesToFt(Or(specificData.spacing, 6)),
             height |-> InchesToFt(Or(specificData.matureHeight, 6))]
      [] type = "tree" ->
            [width |-> Or(specificData.canopy, Ft(20)),
             depth |-> Or(specificData.canopy, Ft(20)),
             height |-> Or(specificData.height, Ft(30))]
      [] type = "fence_segment" -> [width |-> Ft(10), depth |-> Ft(1) \div 2, height |-> Ft(6)]
      [] type = "patio" -> [width |-> Ft(10), depth |-> Ft(10), height |-> Ft(1) \div 4]
      [] type = "path" -> [width |-> Ft(10), depth |-> Ft(3), height |-> Ft(3) \div 20]
      [] type = "sprinkler" ->
            [width |-> Ft(1) \div 2, depth |-> Ft(1) \div 2, height |-> Ft(1) \div 2]
      [] type = "rain_barrel" ->
            [width |-> Ft(5) \div 2, depth |-> Ft(5) \div 2, height |-> Ft(7) \div 2]
      [] type = "bench" -> [width |-> Ft(5), depth |-> Ft(2), height |-> Ft(5) \div 2]
      [] type = "fire_pit" ->
            [width |-> Ft(7) \div 2, depth |-> Ft(7) \div 2, height |-> Ft(3) \div 2]
      [] type = "lawn_area" -> [width |-> Ft(20), depth |-> Ft(20), height |-> Ft(1) \div 20]
      [] OTHER -> [width |-> Ft(5), depth |-> Ft(5), height |-> Ft(1)]

\* validateAndPlaceElement without the clamp.
validateAndPlaceElement_noClamp(s, element) == element

validateAndPlaceElement(s, element) ==
    IF s.lotConfig.isCustomShape /\ Len(s.lotConfig.customShapePoints) > 0
    THEN element
    ELSE [element EXCEPT
            !.x = Max(0, Min(element.x, s.lotConfig.width - element.width)),
            !.y = Max(0, Min(element.y, s.lotConfig.depth - element.depth))]

\* addElementToThree without the link back from the element to its group.
addElementToThree_unlinked(s, i, season) ==
    [s EXCEPT !.sceneNodes =
        Append(@, NewNode(s.elements[i].type, s.elements[i].id))]

\* The switch of addElementToThree on the group just created: a load is
\* started for a house, a tree or a plant, the shed gets body and roof, every
\* other type its mainMesh.
fillGroup(s, node, elementData, season) ==
    CASE elementData.type = "house" -> loadAndConfigureHouseModel(s, node)
      [] elementData.type = "tree" -> loadAndConfigureTreeModel(s, node, elementData, season)
      [] elementData.type = "plant" -> loadAndConfigurePlantModel(s, node)
      [] elementData.type = "shed" -> [s EXCEPT !.sceneNodes[node].children = <<Mesh, Mesh>>]
      [] OTHER -> [s EXCEPT !.sceneNodes[node].children = <<Mesh>>]

\* Adds the scene node of the element at index i of the store and links it back.
addElementToThree(s, i, season) ==
    LET nodes == Append(s.sceneNodes,
                        [NewNode(s.elements[i].type, s.elements[i].id) EXCEPT
                            !.position = ThreePlacement(s.lotConfig, s.elements[i])])
        s1 == fillGroup([s EXCEPT !.sceneNodes = nodes], Len(nodes), s.elements[i], season)
    IN  [s1 EXCEPT !.elements[i].node = Len(nodes)]

\* newElement of handleAddElement as it is handed to validateAndPlaceElement
\* (app.js 465-501).
centredNewElement(s, type, specificData) ==
    LET custom == s.lotConfig.isCustomShape /\ Len(s.lotConfig.customShapePoints) > 0
        pts == s.lotConfig.customShapePoints
        currentLotWidth == IF custom THEN PolyMaxX(pts) - PolyMinX(pts)
                           ELSE s.lotConfig.width
        currentLotDepth == IF custom THEN PolyMaxY(pts) - PolyMinY(pts)
                           ELSE s.lotConfig.depth
        viewCenterXFt == (currentLotWidth \div 2) - s.p5PanOffset.x
        viewCenterYFt == (currentLotDepth \div 2) - s.p5PanOffset.y
        fp == Footprint(type, specificData)
    IN  [id |-> s.nextElementId, type |-> type,
         x |-> viewCenterXFt - fp.width \div 2,
         y |-> viewCenterYFt - fp.depth \div 2,
         width |-> fp.width, depth |-> fp.depth, height |-> fp.height,
         rotation |-> Num(0), isTree |-> type = "tree",
         isPlant |-> type = "plant", species |-> specificData.species,
         node |-> NoRef]

\* The try block of handleAddElement (app.js 464-511).
placeNewElement(s, type, specificData) ==
    LET newElement == centredNewElement(s, type, specificData)
        s1 == [s EXCEPT !.nextElementId = @ + 1,
                        !.elements = Append(@, validateAndPlaceElement(s, newElement))]
        s2 == addElementToThree(s1, Len(s1.elements), s1.currentSeason)
    IN  handleElementSelect(s2, IdNum(newElement.id))

\* handleAddElement without the nextElementId++.
handleAddElement_idKept(s, type, specificData) ==
    IF s.currentDrawingMode # "null"
    THEN [s EXCEPT !.alert = "Please finish or cancel drawing first."]
    ELSE [placeNewElement(s, type, specificData) EXCEPT !.nextElementId = s.nextElementId]

\* handleAddElement without the test for an active drawing mode.
handleAddElement_whileDrawing(s, type, specificData) ==
    placeNewElement(s, type, specificData)

handleAddElement(s, type, specificData) ==
    IF s.currentDrawingMode # "null"
    THEN [s EXCEPT !.alert = "Please finish or cancel drawing first."]
    ELSE placeNewElement(s, type, specificData)

\* handleAddSpecificElement('tree') with the two defaults exchanged.
handleAddTree_swapped(s, speciesKey, heightInput, canopyInput) ==
    IF speciesKey = "" THEN [s EXCEPT !.alert = "Please select a tree species."]
    ELSE LET speciesInfo ==
                 IF speciesKey \in DOMAIN treeManifest THEN treeManifest[speciesKey]
                 ELSE [defaultHeightFt |-> Ft(30), defaultCanopyFt |-> Ft(20)]
         IN  handleAddElement(s, "tree",
                 [NoData EXCEPT
                     !.species = speciesKey,
                     !.height = OrDefault(heightInput, speciesInfo.defaultCanopyFt),
                     !.canopy = OrDefault(canopyInput, speciesInfo.defaultHeightFt)])

\* handleAddSpecificElement('tree'): the species selector and the two optional
\* override fields (NaN when left empty).
handleAddTree(s, speciesKey, heightInput, canopyInput) ==
    IF speciesKey = "" THEN [s EXCEPT !.alert = "Please select a tree species."]
    ELSE LET speciesInfo ==
                 IF speciesKey \in DOMAIN treeManifest THEN treeManifest[speciesKey]
                 ELSE [defaultHeightFt |-> Ft(30), defaultCanopyFt |-> Ft(20)]
         IN  handleAddElement(s, "tree",
                 [NoData EXCEPT
                     !.species = speciesKey,
                     !.height = OrDefault(heightInput, speciesInfo.defaultHeightFt),
                     !.canopy = OrDefault(canopyInput, speciesInfo.defaultCanopyFt)])

\* handleAddSpecificElement('plant'): plantDetails is the selected library entry.
handleAddPlant(s, plantDetails) ==
    handleAddElement(s, "plant", plantDetails)

(* ---------------- app.js: rotation, deletion, house update ------------ *)
\* a % 360 on doubles: the result has the sign of the dividend and is exact.
JsRem(n, m) ==
    IF isNaN(n) THEN NaN
    ELSE [n EXCEPT !.v = IF n.v >= 0 THEN n.v % m ELSE 0 - ((0 - n.v) % m)]

JsLt0(n) == ~isNaN(n) /\ (n.v < 0 \/ (n.v = 0 /\ n.e < 0))

\* a + k on doubles, rounded to nearest: a part below half an ulp of the sum
\* is lost unless the sum's integer part is 0.
JsAdd(n, k) ==
    IF isNaN(n) THEN NaN
    ELSE [k |-> "num", v |-> n.v + k, e |-> IF n.v + k = 0 THEN n.e ELSE 0]

normalizeRotation(newRotationDegrees) ==
    LET normalizedRotation == JsRem(newRotationDegrees, 360)
    IN  IF JsLt0(normalizedRotation) THEN JsAdd(normalizedRotation, 360)
        ELSE normalizedRotation

\* selectedElement is truthy (neither null nor the undefined of a failed find).
Truthy(sel) == sel.kind \notin {"null", "undefined"}

\* The selected object is the custom house the store currently holds, and not
\* a house that has since been replaced.
SelIsLiveHouse(s) ==
    /\ s.selectedElement.kind = "custom_house"
    /\ s.customHouse # <<>>
    /\ s.customHouse[1].id = s.selectedElement.id

handleElementRotation(s, newRotationDegrees) ==
    IF ~Truthy(s.selectedElement) \/ s.selectedElement.kind \notin ROTATABLE_ELEMENT_TYPES
    THEN s
    ELSE LET r == normalizeRotation(newRotationDegrees)
             i == FindIndex(s.elements, s.selectedElement.id)
         IN  IF s.selectedElement.kind = "custom_house"
             THEN IF SelIsLiveHouse(s) THEN [s EXCEPT !.customHouse[1].rotation = r] ELSE s
             ELSE [s EXCEPT !.elements[i].rotation = r]

RemoveId(elems, id) == SelectSeq(elems, LAMBDA el : el.id # id)

handleDeleteSelectedElement(s, confirmed) ==
    IF ~Truthy(s.selectedElement) \/ ~confirmed THEN s
    ELSE LET sel == s.selectedElement
             s1 == IF sel.kind = "custom_house"
                   THEN [(IF sel.node # NoRef THEN removeCustomHouseFromThree(s, sel.node)
                          ELSE s) EXCEPT !.customHouse = <<>>]
                   ELSE [removeElementFromThree(s, sel.node) EXCEPT
                            !.elements = RemoveId(@, sel.id)]
         IN  [s1 EXCEPT !.selectedElement = NullSel]

\* handleSeasonChange: event.target.value becomes the season and the trees are
\* given their models for it. data.currentSeason, which the handler also
\* writes, is read by no handler and is not kept here.
handleSeasonChange(s, value) ==
    updateSeasonalAssetsInThree([s EXCEPT !.currentSeason = value], value, 1)

updateCustomHouseInThree(s) ==
    IF s.customHouse[1].node = NoRef THEN addCustomHouseToThree(s)
    ELSE addCustomHouseToThree(removeCustomHouseFromThree(s, s.customHouse[1].node))

\* handleUpdateCustomHouse without the return that follows the alert.
handleUpdateCustomHouse_noReturn(s, newWallHeight, newRoofType, newWallColor) ==
    IF s.customHouse = <<>> \/ s.selectedElement.kind # "custom_house" THEN s
    ELSE updateCustomHouseInThree(
             [s EXCEPT !.customHouse[1].wallHeight = newWallHeight.v,
                       !.customHouse[1].height = newWallHeight.v,
                       !.customHouse[1].roofType = newRoofType,
                       !.customHouse[1].wallColor = newWallColor,
                       !.alert = IF isNaN(newWallHeight) \/ newWallHeight.v <= 0
                                 THEN "Please enter a valid positive number for house wall height."
                                 ELSE @])

handleUpdateCustomHouse(s, newWallHeight, newRoofType, newWallColor) ==
    IF s.customHouse = <<>> \/ s.selectedElement.kind # "custom_house" THEN s
    ELSE IF isNaN(newWallHeight) \/ newWallHeight.v <= 0
    THEN [s EXCEPT !.alert = "Please enter a valid positive number for house wall height."]
    ELSE LET live == SelIsLiveHouse(s)
             s1 == updateCustomHouseInThree(
                       [s EXCEPT !.customHouse[1].wallHeight = newWallHeight.v,
                                 !.customHouse[1].height = newWallHeight.v,
                                 !.customHouse[1].roofType = newRoofType,
                                 !.customHouse[1].wallColor = newWallColor])
         IN  IF live THEN [s1 EXCEPT !.selectedElement.node = s1.customHouse[1].node]
             ELSE s1

(* -------------------------- pan and orientation ----------------------- *)
p5handlePan(s, deltaXFt, deltaYFt) ==
    LET newPanX == s.p5PanOffset.x + deltaXFt
        newPanY == s.p5PanOffset.y + deltaYFt
        custom == s.lotConfig.isCustomShape /\ Len(s.lotConfig.customShapePoints) > 0
        pts == s.lotConfig.customShapePoints
        \* w / 1.5
        maxPanX == (2 * (IF custom THEN PolyMaxX(pts) - PolyMinX(pts)
                         ELSE s.lotConfig.width)) \div 3
        maxPanY == (2 * (IF custom THEN PolyMaxY(pts) - PolyMinY(pts)
                         ELSE s.lotConfig.depth)) \div 3
    IN  Pt(Max(0 - maxPanX, Min(newPanX, maxPanX)),
           Max(0 - maxPanY, Min(newPanY, maxPanY)))

onPan(s, dxFt, dyFt) == [s EXCEPT !.p5PanOffset = p5handlePan(s, dxFt, dyFt)]

orientViewNorth(s) ==
    IF s.currentView = "2D" THEN [s EXCEPT !.p5PanOffset = Pt(0, 0)] ELSE s

(* --------------------------- save and load ---------------------------- *)
\* JSON.stringify writes NaN as null.
JsonNumber(n) == IF isNaN(n) THEN [k |-> "null", v |-> 0, e |-> 0] ELSE n
\* n || 0 for a rotation: NaN, null and 0 are falsy.
OrZero(n) == IF n.k # "num" \/ (n.v = 0 /\ n.e = 0) THEN Num(0) ELSE n

\* The object saveDesign writes for an element; undefined fields are dropped.
SavedElement(el) ==
    [id |-> el.id, type |-> el.type, x |-> el.x, y |-> el.y,
     width |-> el.width, depth |-> el.depth, height |-> el.height,
     rotation |-> OrZero(el.rotation), species |-> el.species]

\* { ...customHouse, height: undefined, threeInstance: undefined }
SavedHouse(h) ==
    [id |-> h.id, type |-> h.type, x |-> h.x, y |-> h.y, width |-> h.width,
     depth |-> h.depth, rotation |-> JsonNumber(h.rotation), outline |-> h.outline,
     wallHeight |-> h.wallHeight, roofType |-> h.roofType, wallColor |-> h.wallColor]

saveDesign(s) ==
    IF Len(s.elements) = 0 /\ s.customHouse = <<>> /\ ~s.lotConfig.isCustomShape
    THEN [s EXCEPT !.alert = "Nothing to save!"]
    ELSE [s EXCEPT
            !.savedFile =
                <<[lotConfiguration |-> s.lotConfig,
                   customHouseData |-> IF s.customHouse = <<>> THEN <<>>
                                       ELSE <<SavedHouse(s.customHouse[1])>>,
                   elements |-> [i \in 1..Len(s.elements) |-> SavedElement(s.elements[i])],
                   p5PanOffset |-> s.p5PanOffset,
                   currentSeason |-> s.currentSeason]>>,
            !.alert = "Design saved successfully!"]

RECURSIVE RemoveAllFromThree(_, _)
RemoveAllFromThree(s, i) ==
    IF i > Len(s.elements) THEN s
    ELSE RemoveAllFromThree(removeElementFromThree(s, s.elements[i].node), i + 1)

\* customHouse = { ...loadedHouseData } with the wallHeight, roofType and
\* wallColor fallbacks; a saved file has no height field.
LoadedHouse(loadedHouseData) ==
    LET wallHeight == Or(loadedHouseData.wallHeight, DEFAULT_CUSTOM_HOUSE_WALL_HEIGHT)
    IN  [id |-> loadedHouseData.id, type |-> loadedHouseData.type,
         x |-> loadedHouseData.x, y |-> loadedHouseData.y,
         width |-> loadedHouseData.width, depth |-> loadedHouseData.depth,
         rotation |-> loadedHouseData.rotation, outline |-> loadedHouseData.outline,
         wallHeight |-> wallHeight,
         roofType |-> IF loadedHouseData.roofType = "" THEN DEFAULT_CUSTOM_HOUSE_ROOF_TYPE
                      ELSE loadedHouseData.roofType,
         wallColor |-> IF loadedHouseData.wallColor = "" THEN DEFAULT_CUSTOM_HOUSE_WALL_COLOR
                       ELSE loadedHouseData.wallColor,
         height |-> wallHeight, node |-> NoRef]

\* A load that does not take the position from the file.
LoadedElement_atOrigin(elData) ==
    [id |-> elData.id, type |-> elData.type, x |-> 0, y |-> 0,
     width |-> elData.width, depth |-> elData.depth, height |-> elData.height,
     rotation |-> elData.rotation, isTree |-> FALSE, isPlant |-> FALSE,
     species |-> elData.species, node |-> NoRef]

\* { ...elData, rotation: elData.rotation || 0 }: isTree and isPlant are not in
\* the file, so they are undefined (falsy) on the loaded element.
LoadedElement(elData) ==
    [id |-> elData.id, type |-> elData.type, x |-> elData.x, y |-> elData.y,
     width |-> elData.width, depth |-> elData.depth, height |-> elData.height,
     rotation |-> OrZero(elData.rotation), isTree |-> FALSE, isPlant |-> FALSE,
     species |-> elData.species, node |-> NoRef]

\* season is designData.viewSettings?.currentSeason || currentSeason.
RECURSIVE LoadElements(_, _, _, _)
LoadElements(s, elData, season, i) ==
    IF i > Len(elData) THEN s
    ELSE LET newEl == LoadedElement(elData[i])
             s1 == [s EXCEPT !.nextElementId = IF newEl.id >= @ THEN newEl.id + 1 ELSE @,
                             !.elements = Append(@, newEl)]
         IN  LoadElements(addElementToThree(s1, Len(s1.elements), season), elData, season, i + 1)

\* reader.onload from the removal of the old scene nodes to the loaded house
\* (app.js 736-772); hasLot: the file has a lotConfiguration.
clearAndLoadLotHouse(s, designData, hasLot) ==
    LET s1 == RemoveAllFromThree(s, 1)
        s2 == IF s1.customHouse # <<>> /\ s1.customHouse[1].node # NoRef
              THEN removeCustomHouseFromThree(s1, s1.customHouse[1].node)
              ELSE s1
        s3 == [s2 EXCEPT !.elements = <<>>, !.nextElementId = 0,
                         !.selectedElement = NullSel, !.customHouse = <<>>]
        s4 == IF hasLot
              THEN updateGroundPlane(updateLotConfigUI(
                       [s3 EXCEPT !.lotConfig = designData.lotConfiguration],
                       designData.lotConfiguration.isCustomShape))
              ELSE updateGroundPlane(
                       [s3 EXCEPT !.lotConfig =
                            RectLot(DEFAULT_LOT_WIDTH_FT, DEFAULT_LOT_DEPTH_FT)])
    IN  IF designData.customHouseData # <<>>
        THEN LET h == LoadedHouse(designData.customHouseData[1])
             IN  addCustomHouseToThree(
                     [s4 EXCEPT !.customHouse = <<h>>,
                                !.nextElementId = IF h.id >= @ THEN h.id + 1 ELSE @])
        ELSE s4

\* reader.onload after the validation, for a file whose elements are an array
\* (app.js 736-798).
applyDesign(s, designData, hasLot) ==
    LET s5 == clearAndLoadLotHouse(s, designData, hasLot)
        s6 == LoadElements(s5, designData.elements, designData.currentSeason, 1)
        s6a == updateSeasonalAssetsInThree(
                   [s6 EXCEPT !.p5PanOffset = designData.p5PanOffset,
                              !.currentSeason = designData.currentSeason],
                   designData.currentSeason, 1)
        s7 == [s6a EXCEPT !.alert = "Design loaded successfully!"]
    IN  handleElementSelect(s7, IF s7.customHouse # <<>> THEN IdHouse(s7.customHouse[1].id)
                                ELSE IdNull)

\* reader.onload for a file this program saved.
loadDesign(s, designData) == applyDesign(s, designData, TRUE)

\* The catch of reader.onload: whatever the try block had done stays done.
failedLoad(s) == [s EXCEPT !.alert = "Failed to load design"]

\* A file the user picked: whether its text is JSON, whether the parsed value
\* has a truthy version, which of lotConfiguration, customHouseData and
\* elements are truthy, whether elements is an array, and the values of the
\* members that are there.
FileOf(parses, version, members, elementsIsArray, designData) ==
    [parses |-> parses, version |-> version, members |-> members,
     elementsIsArray |-> elementsIsArray,
     designData |->
         [designData EXCEPT
             !.customHouseData = IF "customHouseData" \in members THEN @ ELSE <<>>,
             !.elements = IF "elements" \in members /\ elementsIsArray THEN @
                          ELSE <<>>]]

\* reader.onload (app.js 729-801). JSON.parse throws on text that is not JSON,
\* the validation throws, and forEach of an elements member that is not an
\* array throws after the lot and the house of the file were applied.
readerOnload(s, file) ==
    IF ~file.parses THEN failedLoad(s)
    ELSE IF file.members = {} \/ ~file.version THEN failedLoad(s)
    ELSE IF "elements" \in file.members /\ ~file.elementsIsArray
    THEN failedLoad(clearAndLoadLotHouse(s, file.designData,
                                         "lotConfiguration" \in file.members))
    ELSE applyDesign(s, file.designData, "lotConfiguration" \in file.members)

(* ----------------------- p5-sketch.js: the viewport ------------------- *)
\* The centre of the lot the sketch draws around.
LotCenterFt(lotCfg) ==
    IF lotCfg.isCustomShape /\ Len(lotCfg.customShapePoints) > 0
    THEN LET pts == lotCfg.customShapePoints
         IN  Pt(PolyMinX(pts) + (PolyMaxX(pts) - PolyMinX(pts)) \div 2,
                PolyMinY(pts) + (PolyMaxY(pts) - PolyMinY(pts)) \div 2)
    ELSE Pt(lotCfg.width \div 2, lotCfg.depth \div 2)

\* p5CanvasToLotCoords; (fromCentreXFt, fromCentreYFt) is the mouse relative to
\* the canvas centre, divided by the zoom scale and by PIXELS_PER_FOOT_P5.
p5CanvasToLotCoords(s, fromCentreXFt, fromCentreYFt) ==
    Pt(fromCentreXFt + s.p5PanOffset.x + LotCenterFt(s.lotConfig).x,
       fromCentreYFt + s.p5PanOffset.y + LotCenterFt(s.lotConfig).y)

(* ----------------------- p5-sketch.js: dragging ----------------------- *)
\* Math.round(v / GRID_SIZE_FT) * GRID_SIZE_FT
SnapToGrid(v) == ((2 * v + GRID_SIZE_FT) \div (2 * GRID_SIZE_FT)) * GRID_SIZE_FT

\* The object an id refers to: <<>> if the store does not hold it.
ObjectOf(s, elementId) ==
    IF elementId.k = "house"
    THEN s.customHouse
    ELSE LET i == FindIndex(s.elements, elementId.v)
         IN  IF elementId.k = "num" /\ i # 0 THEN <<s.elements[i]>> ELSE <<>>

\* threeX and threeZ of handleElementMove (app.js 570-579).
MovePlacement(lotCfg, elementToMove) ==
    LET pts == lotCfg.customShapePoints
        custom == lotCfg.isCustomShape /\ Len(pts) > 0
        lotCenterX == IF custom THEN (PolyMinX(pts) + PolyMaxX(pts)) \div 2
                      ELSE lotCfg.width \div 2
        lotCenterZ == IF custom THEN (PolyMinY(pts) + PolyMaxY(pts)) \div 2
                      ELSE lotCfg.depth \div 2
    IN  Pt(elementToMove.x + elementToMove.width \div 2 - lotCenterX,
           elementToMove.y + elementToMove.depth \div 2 - lotCenterZ)

\* elementToMove is a copy of the moved object with its new x and y.
moveThreeInstance(s, elementToMove) ==
    IF elementToMove.node = NoRef THEN s
    ELSE [s EXCEPT !.sceneNodes[elementToMove.node].position =
                       MovePlacement(s.lotConfig, elementToMove)]

handleElementMove(s, elementId, newXFt, newYFt) ==
    IF elementId.k = "house"
    THEN IF s.customHouse = <<>> THEN s
         ELSE LET s1 == [s EXCEPT !.customHouse[1].x = newXFt,
                                  !.customHouse[1].y = newYFt]
              IN  moveThreeInstance(s1, s1.customHouse[1])
    ELSE LET i == FindIndex(s.elements, elementId.v)
         IN  IF i = 0 THEN s
             ELSE LET s1 == [s EXCEPT !.elements[i].x = newXFt, !.elements[i].y = newYFt]
                  IN  moveThreeInstance(s1, s1.elements[i])

\* handleP5MousePressed outside drawing mode, the press hitting the object
\* with this id: the drag starts and the object is selected.
pressOnObject(s, elementId) ==
    LET obj == ObjectOf(s, elementId)[1]
    IN  handleElementSelect(
            [s EXCEPT !.dragP5 = <<[target |-> elementId,
                                    dragStartElementPosFt |-> Pt(obj.x, obj.y)]>>],
            elementId)

\* handleP5MouseDragged without the clamp to the rectangle.
handleP5MouseDragged_noClamp(s, deltaXFt, deltaYFt) ==
    IF s.dragP5 = <<>> \/ ObjectOf(s, s.dragP5[1].target) = <<>> THEN s
    ELSE LET drag == s.dragP5[1]
             newX == SnapToGrid(drag.dragStartElementPosFt.x + deltaXFt)
             newY == SnapToGrid(drag.dragStartElementPosFt.y + deltaYFt)
         IN  handleElementMove(s, drag.target, newX, newY)

\* deltaXFt, deltaYFt: how far the mouse is from where it was pressed.
handleP5MouseDragged(s, deltaXFt, deltaYFt) ==
    IF s.dragP5 = <<>> \/ ObjectOf(s, s.dragP5[1].target) = <<>> THEN s
    ELSE LET drag == s.dragP5[1]
             selectedP5ElementData == ObjectOf(s, drag.target)[1]
             snappedX == SnapToGrid(drag.dragStartElementPosFt.x + deltaXFt)
             snappedY == SnapToGrid(drag.dragStartElementPosFt.y + deltaYFt)
             rect == ~s.lotConfig.isCustomShape
             newElementX_ft ==
                 IF rect
                 THEN Max(0, Min(snappedX,
                                 s.lotConfig.width - selectedP5ElementData.width))
                 ELSE snappedX
             newElementY_ft ==
                 IF rect
                 THEN Max(0, Min(snappedY,
                                 s.lotConfig.depth - selectedP5ElementData.depth))
                 ELSE snappedY
         IN  IF \/ selectedP5ElementData.x # newElementX_ft
                \/ selectedP5ElementData.y # newElementY_ft
             THEN handleElementMove(s, drag.target, newElementX_ft, newElementY_ft)
             ELSE s

handleP5MouseReleased(s) == [s EXCEPT !.dragP5 = <<>>]

(* ------------------------------ actions ------------------------------- *)
Step(s, ran) == Commit(s, ran) /\ UNCHANGED savedDesign

\* drawLotShapeBtn is shown while the lot panel is not in its drawing layout.
DrawLotShape ==
    /\ ~lotDrawUI
    /\ LET s == startDrawingMode(Cur, "lot_polygon")
       IN  Step(s, Ran("start", "lot_polygon", NoInput, NoInput, NoRef, s))

ActivateHomeBuilder ==
    /\ ~houseDrawUI
    /\ LET s == startDrawingMode(Cur, "home_builder_polygon")
       IN  Step(s, Ran("start", "home_builder_polygon", NoInput, NoInput, NoRef, s))

FinishDrawingLot ==
    /\ lotDrawUI
    /\ LET s == finishDrawingMode(Cur, "lot_polygon", NaN, "", "")
       IN  Step(s, [Ran("finish", "lot_polygon", NoInput, NoInput, NoRef, s)
                        EXCEPT !.pts = currentPolygonPointsFt])

FinishHomeBuilder(wallHeightInput, roofTypeInput, wallColorInput) ==
    /\ houseDrawUI
    /\ LET s == finishDrawingMode(Cur, "home_builder_polygon", wallHeightInput,
                                  roofTypeInput, wallColorInput)
       IN  Step(s, [Ran("finish", "home_builder_polygon", NoInput, NoInput, NoRef, s)
                        EXCEPT !.pts = currentPolygonPointsFt])

\* A cancel records how many vertices the sketch held when it was pressed.
CancelDrawingLot ==
    /\ lotDrawUI
    /\ LET s == cancelDrawing(Cur)
       IN  Step(s, Ran("cancel", "lot_polygon", Num(Len(currentPolygonPointsFt)),
                       NoInput, NoRef, s))

CancelHomeBuilder ==
    /\ houseDrawUI
    /\ LET s == cancelDrawing(Cur)
       IN  Step(s, Ran("cancel", "home_builder_polygon",
                       Num(Len(currentPolygonPointsFt)), NoInput, NoRef, s))

\* handleP5MousePressed while drawing; (x, y) is the mouse in lot coordinates.
MousePressedDrawing(x, y) ==
    /\ isInDrawingModeP5
    /\ LET s == pressWhileDrawing(Cur, Pt(SnapToGrid(x), SnapToGrid(y)))
       IN  Step(s, Ran("press", "", Num(x), Num(y), NoRef, s))

\* The mouse goes down on an object of the 2D view.
MousePressedOnObject(elementId) ==
    /\ ~isInDrawingModeP5
    /\ currentView = "2D"
    /\ dragP5 = <<>>
    /\ ObjectOf(Cur, elementId) # <<>>
    /\ LET s == pressOnObject(Cur, elementId)
       IN  Step(s, Ran("pressObject", elementId.k, Num(elementId.v), NoInput, NoRef, s))

\* The mouse moves with the button held; the step records where the drag
\* started and how far the mouse has moved.
MouseDragged(deltaXFt, deltaYFt) ==
    /\ dragP5 # <<>>
    /\ LET s == handleP5MouseDragged(Cur, deltaXFt, deltaYFt)
       IN  Step(s, [Ran("drag", dragP5[1].target.k, Num(dragP5[1].target.v), NoInput,
                        NoRef, s)
                        EXCEPT !.pts = <<dragP5[1].dragStartElementPosFt,
                                         Pt(deltaXFt, deltaYFt)>>])

MouseReleased ==
    /\ dragP5 # <<>>
    /\ LET s == handleP5MouseReleased(Cur)
       IN  Step(s, Ran("release", "", NoInput, NoInput, NoRef, s))

\* A click (press and release in place) in the 2D view outside drawing, or
\* onMouseClickIn3D: the click hits the custom house, an element, or nothing.
ElementSelect(elementId) ==
    /\ ~isInDrawingModeP5
    /\ \/ elementId.k = "null"
       \/ elementId.k = "house" /\ customHouse # <<>> /\ customHouse[1].id = elementId.v
       \/ elementId.k = "num" /\ FindIndex(elements, elementId.v) # 0
    /\ LET s == handleElementSelect(Cur, elementId)
       IN  Step(s, Ran("select", elementId.k, Num(elementId.v), NoInput, NoRef, s))

DeselectAll ==
    LET s == handleElementSelect(Cur, IdNull)
    IN  Step(s, Ran("deselect", "", NoInput, NoInput, NoRef, s))

ToggleView ==
    LET s == onToggleView(Cur)
    IN  Step(s, Ran("toggleView", "", NoInput, NoInput, NoRef, s))

UpdateLotRect(newWidth, newDepth) ==
    /\ ~lotDrawUI
    /\ LET s == handleUpdateLotRect(Cur, newWidth, newDepth)
       IN  Step(s, Ran("updateLotRect", "", NoInput, NoInput, NoRef, s))

AddElement(type) ==
    LET s == handleAddElement(Cur, type, NoData)
    IN  Step(s, Ran("add", type, NoInput, NoInput, NoRef, s))

AddTree(speciesKey, heightInput, canopyInput) ==
    LET s == handleAddTree(Cur, speciesKey, heightInput, canopyInput)
    IN  Step(s, Ran("addTree", speciesKey, heightInput, canopyInput, NoRef, s))

AddPlant(plantDetails) ==
    LET s == handleAddPlant(Cur, plantDetails)
    IN  Step(s, Ran("add", "plant", Num(plantDetails.spacing),
                    Num(plantDetails.matureHeight), NoRef, s))

\* The change event of the season selector: it is fired when another option
\* is chosen, not when the same one is chosen again.
SeasonChange(value) ==
    /\ value # currentSeason
    /\ LET s == handleSeasonChange(Cur, value)
       IN  Step(s, Ran("season", value, NoInput, NoInput, NoRef, s))

\* A group that waits for modelKey though it was taken out of the scene, NoRef
\* if there is none: what a settling step records as the object it acted on.
RemovedWaiter(modelKey) ==
    LET waiters == {n \in 1..Len(sceneNodes) :
                       /\ ~sceneNodes[n].inScene
                       /\ Occurrences(sceneNodes[n].awaiting, modelKey) > 0}
    IN  IF waiters = {} THEN NoRef
        ELSE CHOOSE n \in waiters : \A m \in waiters : n <= m

\* loadAsync of modelKey comes back with the file: its promise is fulfilled.
ModelLoaded(modelKey) ==
    /\ modelKey \in DOMAIN modelCache
    /\ modelCache[modelKey] = "pending"
    /\ LET s == settlePromise(Cur, modelKey, "fulfilled")
       IN  Step(s, Ran("modelLoaded", "", NoInput, NoInput, RemovedWaiter(modelKey), s))

\* loadAsync of modelKey fails (no such file, no network): its promise is rejected.
ModelLoadFailed(modelKey) ==
    /\ modelKey \in DOMAIN modelCache
    /\ modelCache[modelKey] = "pending"
    /\ LET s == settlePromise(Cur, modelKey, "rejected")
       IN  Step(s, Ran("modelLoadFailed", "", NoInput, NoInput, RemovedWaiter(modelKey), s))

ElementRotationChange(newRotationDegrees) ==
    LET s == handleElementRotation(Cur, newRotationDegrees)
    IN  Step(s, Ran("rotate", selectedElement.kind, newRotationDegrees, NoInput,
                    selectedElement.node, s))

DeleteSelectedElement(confirmed) ==
    LET s == handleDeleteSelectedElement(Cur, confirmed)
    IN  Step(s, Ran("delete",
                    IF ~Truthy(selectedElement) THEN "none"
                    ELSE IF confirmed THEN selectedElement.kind ELSE "declined",
                    Num(selectedElement.id), NoInput, selectedElement.node, s))

UpdateCustomHouse(newWallHeight, newRoofType, newWallColor) ==
    LET s == handleUpdateCustomHouse(Cur, newWallHeight, newRoofType, newWallColor)
    IN  Step(s, Ran("updateCustomHouse", "", newWallHeight, NoInput, NoRef, s))

Pan(dxFt, dyFt) ==
    LET s == onPan(Cur, dxFt, dyFt)
    IN  Step(s, Ran("pan", "", NoInput, NoInput, NoRef, s))

OrientNorth ==
    LET s == orientViewNorth(Cur)
    IN  Step(s, Ran("orientNorth", "", NoInput, NoInput, NoRef, s))

SaveDesign ==
    LET s == saveDesign(Cur)
    IN  /\ Commit(s, Ran("save", "", NoInput, NoInput, NoRef, s))
        /\ savedDesign' = IF s.alert = "Nothing to save!" THEN savedDesign
                          ELSE <<[elements |-> elements, customHouse |-> customHouse]>>

\* reader.onload with the parsed content of the file the user picked.
LoadDesign(designData) ==
    LET s == loadDesign(Cur, designData)
    IN  Step(s, Ran("load", "", NoInput, NoInput, NoRef, s))

\* reader.onload with the content of any file the user picked.
ReaderOnload(file) ==
    LET s == readerOnload(Cur, file)
    IN  Step(s, Ran("readFile", IF file.parses THEN "json" ELSE "text",
                    NoInput, NoInput, NoRef, s))

(* ------------------------- inputs and bounds -------------------------- *)
\* Where the mouse is pressed while drawing, in lot coordinates: a third of a
\* foot off five grid points, so that the snap has something to do.
Near(xFt, yFt) == Pt(Ft(xFt) + Ft(1) \div 3, Ft(yFt) - Ft(1) \div 3)
DrawClicks == {Near(0, 0), Near(1, 0), Near(2, 0), Near(2, 1), Near(0, 1)}
\* Values typed into the wall height, lot width and lot depth fields.
WallHeightInputs == {NaN, Num(Ft(10))}
LotInputs == {NaN, Num(0), Num(Ft(30))}

(* ---------------- the drawing subsystem, one shape at a time ---------- *)
\* A drawing session starts from a design without a custom shape, so that the
\* polygons drawn can be long.
NoCustomShape == ~lotConfig.isCustomShape /\ customHouse = <<>>

NextDraw ==
    \/ NoCustomShape /\ DrawLotShape
    \/ NoCustomShape /\ ActivateHomeBuilder
    \/ FinishDrawingLot
    \/ \E w \in WallHeightInputs : FinishHomeBuilder(w, "", "")
    \/ CancelDrawingLot
    \/ CancelHomeBuilder
    \/ \E m \in DrawClicks :
           Len(currentPolygonPointsFt) < MaxPts /\ MousePressedDrawing(m.x, m.y)
    \/ ToggleView
    \/ \E w \in LotInputs, d \in LotInputs : UpdateLotRect(w, d)

SpecDraw == Init /\ [][NextDraw]_vars

(* ====================== properties: polygon validity ================== *)
\* A vertex in grid units.
G(p) == Pt(p.x \div GRID_SIZE_FT, p.y \div GRID_SIZE_FT)

\* Two closed segments [a,b] and [c,d] with integer end points have a point in
\* common iff a + (ns/den)(b - a) = c + (nt/den)(d - c) for some fractions in
\* [0,1]; a common denominator no larger than the bound below always exists.
SegmentsMeet(a, b, c, d) ==
    LET cross == (b.x - a.x) * (d.y - c.y) - (b.y - a.y) * (d.x - c.x)
        m1 == Max(1, Max(Abs(b.x - a.x), Abs(b.y - a.y)))
        m2 == Max(1, Max(Abs(d.x - c.x), Abs(d.y - c.y)))
        bound == Max(Abs(cross), m1 * m2)
    IN  \E den \in 1..bound : \E ns \in 0..den, nt \in 0..den :
            /\ den * a.x + ns * (b.x - a.x) = den * c.x + nt * (d.x - c.x)
            /\ den * a.y + ns * (b.y - a.y) = den * c.y + nt * (d.y - c.y)

\* No two non-adjacent edges of the closed polygon have a point in common.
\* Edges i and j (1-based, i < j) are adjacent when j = i + 1 or they are the
\* first and the last edge.
IsSimple(polygon) ==
    LET n == Len(polygon)
        W(k) == G(polygon[((k - 1) % n) + 1])
    IN  \A i \in 1..n : \A j \in (i + 1)..n :
            \/ j = i + 1
            \/ (i = 1 /\ j = n)
            \/ ~SegmentsMeet(W(i), W(i + 1), W(j), W(j + 1))

Bowtie == <<Pt(Ft(0), Ft(0)), Pt(Ft(2), Ft(1)), Pt(Ft(2), Ft(0)), Pt(Ft(0), Ft(1))>>
SimplePentagon ==
    <<Pt(Ft(0), Ft(0)), Pt(Ft(1), Ft(0)), Pt(Ft(2), Ft(0)), Pt(Ft(2), Ft(1)),
      Pt(Ft(0), Ft(1))>>

\* C6: isLotShapeValidP5 is false for every polygon of fewer than 3 points and,
\* from 3 points on, true exactly when no two non-adjacent edges of the closed
\* polygon intersect; isHouseShapeValidP5 gives the same answer.  Stated of the
\* polygon being drawn, on which the sketch evaluates the predicate at each
\* press (from the second point on) and at each finish.
C6_ValidIffSimple ==
    LET polygon == currentPolygonPointsFt
    IN  /\ Len(polygon) < 3 => ~isLotShapeValidP5(polygon)
        /\ Len(polygon) >= 3 => (isLotShapeValidP5(polygon) <=> IsSimple(polygon))
        /\ isHouseShapeValidP5(polygon) = isLotShapeValidP5(polygon)
        /\ Len(polygon) > 1 /\ last.op = "press" =>
               isShapeValidPreviewP5 = (Len(polygon) >= 3 /\ IsSimple(polygon))
        /\ ~isLotShapeValidP5(Bowtie)
        /\ isLotShapeValidP5(SimplePentagon)

\* A bowtie has just been drawn and the sketch found it invalid.
C6_Witness ==
    /\ currentPolygonPointsFt = Bowtie
    /\ last.op = "press"
    /\ ~isShapeValidPreviewP5

(* ====================== properties: finishing ========================= *)
\* Twice the signed area by the trapezoid formula; positive for a
\* counter-clockwise polygon.
RECURSIVE TrapezoidSum(_, _)
TrapezoidSum(polygon, i) ==
    IF i > Len(polygon) THEN 0
    ELSE LET p == G(polygon[i])
             q == G(polygon[(i % Len(polygon)) + 1])
         IN  (p.x + q.x) * (q.y - p.y) + TrapezoidSum(polygon, i + 1)

Area2(polygon) == TrapezoidSum(polygon, 1)

\* The step just taken is a lot finish that accepted the polygon it read.
FinishedLot == last.op = "finish" /\ last.arg = "lot_polygon" /\ last.alert = ""

\* C7 as stated: an accepted lot polygon is stored vertex for vertex, drawn
\* order or exact reversal, and the stored order is counter-clockwise.
C7_StoredCounterClockwise ==
    FinishedLot =>
        /\ lotConfig.isCustomShape
        /\ Len(lotConfig.customShapePoints) = Len(last.pts)
        /\ lotConfig.customShapePoints \in {last.pts, Reverse(last.pts)}
        /\ Area2(lotConfig.customShapePoints) > 0

\* C7, amended: an accepted lot polygon is stored vertex for vertex with
\* isCustomShape true; a clockwise drawing is stored reversed, any other as
\* drawn, so the stored order is never clockwise, and it is counter-clockwise
\* whenever the drawn polygon encloses an area.
C7_StoredNeverClockwise ==
    FinishedLot =>
        /\ lotConfig.isCustomShape
        /\ Len(lotConfig.customShapePoints) = Len(last.pts)
        /\ Len(last.pts) >= 3
        /\ Area2(last.pts) < 0 => lotConfig.customShapePoints = Reverse(last.pts)
        /\ Area2(last.pts) >= 0 => lotConfig.customShapePoints = last.pts
        /\ Area2(lotConfig.customShapePoints) >= 0
        /\ Area2(last.pts) # 0 => Area2(lotConfig.customShapePoints) > 0

\* A triangle clicked clockwise has been accepted and stored reversed.
C7_Witness ==
    /\ FinishedLot
    /\ Len(last.pts) = 3
    /\ Area2(last.pts) < 0
    /\ lotConfig.customShapePoints = Reverse(last.pts)
    /\ lotConfig.customShapePoints # last.pts

\* Everything but the record of the last step.
programVars ==
    <<currentView, elements, nextElementId, p5PanOffset, selectedElement,
      lotConfig, currentDrawingMode, customHouse, isInDrawingModeP5,
      currentDrawingPolygonTypeP5, currentPolygonPointsFt,
      isShapeValidPreviewP5, sceneNodes, groundPlane, dragP5, lotDrawUI,
      houseDrawUI, savedFile, currentSeason, modelCache>>

\* C10: a finish whose polygon has fewer than 3 points or is self-intersecting
\* shows an alert and changes nothing: drawing mode, in-progress vertices,
\* lotConfig, customHouse and the scene are as before.
C10_InvalidFinishChangesNothing ==
    [][(/\ last'.op = "finish"
        /\ Len(last'.pts) < 3 \/ ~IsSimple(last'.pts))
       => (last'.alert # "" /\ UNCHANGED programVars)]_vars

\* A finish has just rejected a bowtie drawn for the house, and the drawing
\* goes on.
C10_Witness ==
    /\ last.op = "finish"
    /\ last.alert # ""
    /\ last.pts = Bowtie
    /\ currentPolygonPointsFt = Bowtie
    /\ currentDrawingMode = "home_builder_polygon"
    /\ isInDrawingModeP5

(* -------------------- the lot, drawn again and again ------------------ *)
\* Longest lot polygon where a custom lot may be redrawn over a custom lot.
MaxLotPts == 3
LotClicks == {Near(0, 0), Near(2, 0), Near(0, 1), Near(2, 1)}

NextLot ==
    \/ DrawLotShape
    \/ FinishDrawingLot
    \/ CancelDrawingLot
    \/ \E m \in LotClicks :
           Len(currentPolygonPointsFt) < MaxLotPts /\ MousePressedDrawing(m.x, m.y)
    \/ ToggleView
    \/ \E w \in LotInputs, d \in LotInputs : UpdateLotRect(w, d)

SpecLot == Init /\ [][NextLot]_vars

(* ------------------------- adding elements ---------------------------- *)
\* Elements the store may hold in the adding specification.
MaxAdds == 1
\* Largest pan offset, in feet, the arrow keys are followed to.
MaxPanFt == 6
\* data-type of the palette buttons: every case of the switch of
\* handleAddElement but plant and tree, and one type the switch does not know.
PaletteTypes ==
    {"house", "shed", "raised_bed", "inground_row", "compost_bin", "fence_segment",
     "patio", "path", "sprinkler", "rain_barrel", "bench", "fire_pit", "lawn_area",
     "birdbath"}
\* The species selector: empty, or a key of the manifest.
SpeciesInputs == {""} \cup DOMAIN treeManifest
TreeHeightInputs == {NaN, Num(Ft(25))}
TreeCanopyInputs == {NaN, Num(Ft(12))}
\* Entries of the plant library: spacing and mature height in inches, either
\* of which an entry may lack.
PlantEntries ==
    {[NoData EXCEPT !.spacing = 12, !.matureHeight = 36],
     [NoData EXCEPT !.spacing = 24],
     NoData}
AddLotInputs == {NaN, Num(Ft(6))}
\* callbacks.onPan of the arrow keys, panStep = 5.
panStep == Ft(5)
ArrowKeys == {Pt(0 - panStep, 0), Pt(panStep, 0), Pt(0, 0 - panStep), Pt(0, panStep)}

PanWithin(k) ==
    /\ Abs(p5PanOffset.x + k.x) <= Ft(MaxPanFt)
    /\ Abs(p5PanOffset.y + k.y) <= Ft(MaxPanFt)

NextAdd ==
    \/ \E type \in PaletteTypes : Len(elements) < MaxAdds /\ AddElement(type)
    \/ \E sp \in SpeciesInputs, h \in TreeHeightInputs, c \in TreeCanopyInputs :
           Len(elements) < MaxAdds /\ AddTree(sp, h, c)
    \/ \E pl \in PlantEntries : Len(elements) < MaxAdds /\ AddPlant(pl)
    \/ \E k \in ArrowKeys : PanWithin(k) /\ Pan(k.x, k.y)
    \/ OrientNorth
    \/ \E w \in AddLotInputs, d \in AddLotInputs : UpdateLotRect(w, d)

SpecAdd == Init /\ [][NextAdd]_vars

(* ------------------------------ rotation ------------------------------ *)
MaxRotated == 2
RotationInputs ==
    {NaN, NegTiny, Num(0 - 450), Num(0 - 360), Num(0 - 90), Num(0), Num(45),
     Num(360), Num(725)}
RotTypes == {"shed", "sprinkler"}

NextRot ==
    \/ \E type \in RotTypes : Len(elements) < MaxRotated /\ AddElement(type)
    \/ \E id \in 0..(MaxRotated - 1) : ElementSelect(IdNum(id))
    \/ DeselectAll
    \/ \E d \in RotationInputs : ElementRotationChange(d)

SpecRot == Init /\ [][NextRot]_vars

(* ----------------------- the store and the scene ---------------------- *)
\* Ids handed out, and scene nodes created, in the scene specification.
MaxIds == 2
MaxNodes == 3
\* Longest house polygon outside the drawing specification.
MaxHousePts == 3
HouseClicks == {Near(0, 0), Near(2, 0), Near(0, 1)}
StoreTypes == {"shed", "sprinkler"}
HouseUpdateInputs == {NaN, Num(Ft(12))}

\* Scene nodes a load of the file creates.
NodesOf(designData) == Len(designData.elements) + Len(designData.customHouseData)

\* A file saved in an earlier session: a shed, then a house drawn as a
\* triangle with 10 ft walls.
EarlierFile ==
    LET s1 == handleAddElement(Start, "shed", NoData)
        s2 == startDrawingMode(s1, "home_builder_polygon")
        s3 == pressWhileDrawing(s2, Pt(Ft(0), Ft(0)))
        s4 == pressWhileDrawing(s3, Pt(Ft(2), Ft(0)))
        s5 == pressWhileDrawing(s4, Pt(Ft(0), Ft(1)))
        s6 == finishDrawingMode(s5, "home_builder_polygon", Num(Ft(10)), "", "")
    IN  saveDesign(s6).savedFile[1]

NextScene ==
    \/ \E type \in StoreTypes :
           nextElementId < MaxIds /\ Len(sceneNodes) < MaxNodes /\ AddElement(type)
    \/ \E id \in 0..(MaxIds - 1) : ElementSelect(IdNum(id)) \/ ElementSelect(IdHouse(id))
    \/ DeselectAll
    \/ \E confirmed \in BOOLEAN : DeleteSelectedElement(confirmed)
    \/ ActivateHomeBuilder
    \/ \E m \in HouseClicks :
           Len(currentPolygonPointsFt) < MaxHousePts /\ MousePressedDrawing(m.x, m.y)
    \/ nextElementId < MaxIds /\ Len(sceneNodes) < MaxNodes /\ FinishHomeBuilder(NaN, "", "")
    \/ CancelHomeBuilder
    \/ \E w \in HouseUpdateInputs :
           Len(sceneNodes) < MaxNodes /\ UpdateCustomHouse(w, "gable", "")
    \/ Len(sceneNodes) + NodesOf(EarlierFile) <= MaxNodes /\ LoadDesign(EarlierFile)

SpecScene == Init /\ [][NextScene]_vars

(* --------------------------- save, then load -------------------------- *)
\* Scene nodes created in the save specification: a design of MaxIds objects
\* and one load of it.
MaxSaveNodes == 4
\* The design is panned and its house drawn before the first save; once a file
\* exists the session adds elements, saves and loads.
NothingSavedYet == savedFile = <<>>
\* Arrow keys pressed in the save specification: right and up.
SaveKeys == {Pt(panStep, 0), Pt(0, 0 - panStep)}

NextSave ==
    \/ \E type \in StoreTypes :
           nextElementId < MaxIds /\ Len(sceneNodes) < MaxSaveNodes /\ AddElement(type)
    \/ \E k \in SaveKeys : NothingSavedYet /\ PanWithin(k) /\ Pan(k.x, k.y)
    \/ NothingSavedYet /\ ActivateHomeBuilder
    \/ \E m \in HouseClicks :
           /\ NothingSavedYet
           /\ Len(currentPolygonPointsFt) < MaxHousePts
           /\ MousePressedDrawing(m.x, m.y)
    \/ \E w \in WallHeightInputs :
           /\ NothingSavedYet
           /\ nextElementId < MaxIds
           /\ Len(sceneNodes) < MaxSaveNodes
           /\ FinishHomeBuilder(w, "", "")
    \/ NothingSavedYet /\ CancelHomeBuilder
    \/ SaveDesign
    \/ /\ savedFile # <<>>
       /\ Len(sceneNodes) + NodesOf(savedFile[1]) <= MaxSaveNodes
       /\ LoadDesign(savedFile[1])

SpecSave == Init /\ [][NextSave]_vars

(* ------------------------- dragging elements -------------------------- *)
\* Widths and depths typed for the lot: rejected, smaller than a shed, and one
\* that is not a whole number of feet.
MoveLotInputs == {NaN, Num(Ft(6)), Num(Ft(30) + Ft(1) \div 2)}
\* The custom lot drawn here is one triangle, clicked corner by corner.
LotCorners == <<Near(0, 0), Near(2, 0), Near(0, 1)>>
\* The mouse stays within this many feet of the lot's origin during a drag.
MaxDragFt == 250
\* How far the mouse is dragged from where it was pressed.
MoveDrags ==
    {Pt(Ft(150), Ft(1) \div 3), Pt(0 - Ft(150), 0 - Ft(150)), Pt(Ft(1) \div 3, Ft(150))}
DragWithin(delta) ==
    /\ dragP5 # <<>>
    /\ Abs(dragP5[1].dragStartElementPosFt.x + delta.x) <= Ft(MaxDragFt)
    /\ Abs(dragP5[1].dragStartElementPosFt.y + delta.y) <= Ft(MaxDragFt)
\* Buttons are clicked with the mouse, so not in the middle of a drag.
NoDrag == dragP5 = <<>>

NextMove ==
    \/ \E type \in StoreTypes :
           NoDrag /\ Len(elements) < MaxAdds /\ AddElement(type)
    \/ \E w \in MoveLotInputs, d \in MoveLotInputs : NoDrag /\ UpdateLotRect(w, d)
    \/ NoDrag /\ DrawLotShape
    \/ /\ Len(currentPolygonPointsFt) < Len(LotCorners)
       /\ LET m == LotCorners[Len(currentPolygonPointsFt) + 1]
          IN  MousePressedDrawing(m.x, m.y)
    \/ FinishDrawingLot
    \/ CancelDrawingLot
    \/ \E id \in 0..(MaxIds - 1) : MousePressedOnObject(IdNum(id))
    \/ \E delta \in MoveDrags : DragWithin(delta) /\ MouseDragged(delta.x, delta.y)
    \/ MouseReleased

SpecMove == Init /\ [][NextMove]_vars

(* ---------------------------- id assignment --------------------------- *)
\* Adds, deletes, house finishes, saves and loads of the saved file.
\* The house drawn here is one triangle, clicked corner by corner.
HouseCorners == <<Near(0, 0), Near(2, 0), Near(0, 1)>>

NextIds ==
    \/ nextElementId < MaxIds /\ Len(sceneNodes) < MaxSaveNodes /\ AddElement("shed")
    \/ \E id \in 0..(MaxIds - 1) : ElementSelect(IdNum(id))
    \/ \E confirmed \in BOOLEAN : DeleteSelectedElement(confirmed)
    \/ ActivateHomeBuilder
    \/ /\ Len(currentPolygonPointsFt) < Len(HouseCorners)
       /\ LET m == HouseCorners[Len(currentPolygonPointsFt) + 1]
          IN  MousePressedDrawing(m.x, m.y)
    \/ /\ nextElementId < MaxIds
       /\ Len(sceneNodes) < MaxSaveNodes
       /\ FinishHomeBuilder(Num(Ft(10)), "", "")
    \/ SaveDesign
    \/ /\ savedFile # <<>>
       /\ Len(sceneNodes) + NodesOf(savedFile[1]) <= MaxSaveNodes
       /\ LoadDesign(savedFile[1])

SpecIds == Init /\ [][NextIds]_vars

(* ------------------------- loading any file --------------------------- *)
FileMembers == {"lotConfiguration", "customHouseData", "elements"}
\* Files the user picks: every combination of parsing, version, members and
\* kind of the elements member, with the values of an earlier session's design.
PickedFiles ==
    {FileOf(parses, version, members, elementsIsArray, EarlierFile) :
        parses \in BOOLEAN, version \in BOOLEAN, members \in SUBSET FileMembers,
        elementsIsArray \in BOOLEAN}

NextLoad ==
    \/ nextElementId < MaxIds /\ Len(sceneNodes) < MaxSaveNodes /\ AddElement("shed")
    \/ \E id \in 0..(MaxIds - 1) : ElementSelect(IdNum(id))
    \/ \E w \in LotInputs, d \in LotInputs : UpdateLotRect(w, d)
    \/ ActivateHomeBuilder
    \/ /\ Len(currentPolygonPointsFt) < Len(HouseCorners)
       /\ LET m == HouseCorners[Len(currentPolygonPointsFt) + 1]
          IN  MousePressedDrawing(m.x, m.y)
    \/ /\ nextElementId < MaxIds
       /\ Len(sceneNodes) < MaxSaveNodes
       /\ FinishHomeBuilder(Num(Ft(10)), "", "")
    \/ \E file \in PickedFiles :
           /\ Len(sceneNodes) + NodesOf(file.designData) <= MaxSaveNodes
           /\ ReaderOnload(file)

SpecLoad == Init /\ [][NextLoad]_vars

(* --------------------------- typed numbers ---------------------------- *)
\* Values typed into the lot and wall height fields: not a number, zero,
\* negative, and valid.
TypedLot == {NaN, Num(0), Num(0 - Ft(5)), Num(Ft(30))}
TypedWallHeight == {NaN, Num(0), Num(0 - Ft(3)), Num(Ft(12))}

NextValidate ==
    \/ \E w \in TypedLot, d \in TypedLot : UpdateLotRect(w, d)
    \/ \E w \in TypedWallHeight, roof \in {"gable", "flat"} :
           Len(sceneNodes) < MaxNodes /\ UpdateCustomHouse(w, roof, "")
    \/ DrawLotShape
    \/ FinishDrawingLot
    \/ ActivateHomeBuilder
    \/ /\ Len(currentPolygonPointsFt) < Len(LotCorners)
       /\ LET m == (IF lotDrawUI THEN LotCorners ELSE HouseCorners)[
                       Len(currentPolygonPointsFt) + 1]
          IN  MousePressedDrawing(m.x, m.y)
    \/ /\ nextElementId < MaxIds
       /\ Len(sceneNodes) < MaxNodes
       /\ FinishHomeBuilder(Num(Ft(10)), "", "")
    \/ \E id \in 0..(MaxIds - 1) : ElementSelect(IdHouse(id))
    \/ DeselectAll

SpecValidate == Init /\ [][NextValidate]_vars

(* ---------------------- trees and plants, reloaded -------------------- *)
NextReload ==
    \/ \E type \in StoreTypes :
           nextElementId < MaxIds /\ Len(sceneNodes) < MaxSaveNodes /\ AddElement(type)
    \/ \E sp \in SpeciesInputs, h \in TreeHeightInputs, c \in TreeCanopyInputs :
           nextElementId < MaxIds /\ Len(sceneNodes) < MaxSaveNodes /\ AddTree(sp, h, c)
    \/ \E pl \in PlantEntries :
           nextElementId < MaxIds /\ Len(sceneNodes) < MaxSaveNodes /\ AddPlant(pl)
    \/ SaveDesign
    \/ /\ savedFile # <<>>
       /\ Len(sceneNodes) + NodesOf(savedFile[1]) <= MaxSaveNodes
       /\ LoadDesign(savedFile[1])

SpecReload == Init /\ [][NextReload]_vars

(* ------------------- the pointer, drawing or not ---------------------- *)
\* p5Canvas.mouseReleased runs handleP5MouseReleased only for a release over
\* the canvas, p5Instance.mouseDragged runs for every mouse move with a button
\* down: after a release outside the canvas the drag of the sketch is still
\* on, and the buttons of the page can be clicked.
NextPointer ==
    \/ \E type \in StoreTypes : Len(elements) < MaxAdds /\ AddElement(type)
    \/ \E id \in 0..(MaxIds - 1) : MousePressedOnObject(IdNum(id))
    \/ \E delta \in MoveDrags : DragWithin(delta) /\ MouseDragged(delta.x, delta.y)
    \/ MouseReleased
    \/ DrawLotShape
    \/ /\ Len(currentPolygonPointsFt) < Len(LotCorners)
       /\ LET m == LotCorners[Len(currentPolygonPointsFt) + 1]
          IN  MousePressedDrawing(m.x, m.y)
    \/ FinishDrawingLot
    \/ CancelDrawingLot

SpecPointer == Init /\ [][NextPointer]_vars

(* ---------------------- models loading, seasons ----------------------- *)
\* Groups created, and loads one group may be waiting for at a time.
MaxLoadNodes == 3
MaxAwaiting == 2
SeasonInputs == {"summer", "winter"}
\* The plant added here: the first entry of the library.
Tomato == [NoData EXCEPT !.spacing = 12, !.matureHeight = 36]
CanAwaitMore == \A n \in 1..Len(sceneNodes) : Len(sceneNodes[n].awaiting) < MaxAwaiting

\* Elements whose groups are filled by a load are added, selected and deleted,
\* the season is changed, and each load comes back or fails at any later time.
NextAsync ==
    \/ Len(sceneNodes) < MaxLoadNodes /\ AddElement("house")
    \/ Len(sceneNodes) < MaxLoadNodes /\ AddTree("sugar_maple", NaN, NaN)
    \/ Len(sceneNodes) < MaxLoadNodes /\ AddPlant(Tomato)
    \/ \E id \in 0..(MaxLoadNodes - 1) : ElementSelect(IdNum(id))
    \/ DeleteSelectedElement(TRUE)
    \/ \E value \in SeasonInputs : CanAwaitMore /\ SeasonChange(value)
    \/ \E modelKey \in DOMAIN modelCache : ModelLoaded(modelKey)
    \/ \E modelKey \in DOMAIN modelCache : ModelLoadFailed(modelKey)

SpecAsync == Init /\ [][NextAsync]_vars

(* ------------------------- the whole program -------------------------- *)
\* Every handler, each under the inputs and caps of its specification above.
Next ==
    NextDraw \/ NextLot \/ NextAdd \/ NextRot \/ NextScene \/ NextSave \/ NextMove \/ NextIds \/ NextLoad \/ NextValidate \/ NextReload \/ NextPointer \/ NextAsync

Spec == Init /\ [][Next]_vars

(* ====================== properties: the lot =========================== *)
\* C3: exactly one lot representation is populated in every reachable state:
\* a custom lot has width = depth = 0 and at least 3 points, a rectangular lot
\* has no points and positive width and depth; an accepted lot finish leaves
\* the first, an accepted handleUpdateLotRect the second.
C3_OneLotRepresentation ==
    /\ lotConfig.isCustomShape =>
           /\ lotConfig.width = 0 /\ lotConfig.depth = 0
           /\ Len(lotConfig.customShapePoints) >= 3
    /\ ~lotConfig.isCustomShape =>
           /\ lotConfig.customShapePoints = <<>>
           /\ lotConfig.width > 0 /\ lotConfig.depth > 0
    /\ FinishedLot => lotConfig.isCustomShape
    /\ last.op = "updateLotRect" /\ last.alert = "" => ~lotConfig.isCustomShape

\* A polygon has just replaced the rectangle.
C3_Witness ==
    /\ FinishedLot
    /\ lotConfig.isCustomShape
    /\ Len(lotConfig.customShapePoints) = 3
    /\ lotConfig.width = 0

(* ====================== properties: adding ============================ *)
\* The step just taken is an add that handleAddElement carried out.
Added == last.op \in {"add", "addTree"} /\ last.alert = ""
Newest == elements[Len(elements)]

\* C4: on a rectangular lot, an element added through handleAddElement, of
\* any type and under any pan offset, is stored with 0 <= x <= lot width and
\* 0 <= y <= lot depth.
C4_AddedWithinLot ==
    Added /\ ~lotConfig.isCustomShape =>
        /\ 0 <= Newest.x /\ Newest.x <= lotConfig.width
        /\ 0 <= Newest.y /\ Newest.y <= lotConfig.depth

\* The view was panned so far that the new element was pushed back to the
\* right edge of the lot.
C4_Witness ==
    /\ Added
    /\ ~lotConfig.isCustomShape
    /\ p5PanOffset.x < 0
    /\ Newest.x > 0
    /\ Newest.x + Newest.width = lotConfig.width

\* C8: a tree of a manifest species added with both override fields empty is
\* an element with isTree true, width and depth equal to the species'
\* defaultCanopyFt and height equal to its defaultHeightFt.
C8_TreeDefaults ==
    /\ last.op = "addTree"
    /\ last.alert = ""
    /\ last.arg \in DOMAIN treeManifest
    /\ isNaN(last.d)
    /\ isNaN(last.d2)
    => /\ Newest.isTree
       /\ Newest.type = "tree"
       /\ Newest.width = treeManifest[last.arg].defaultCanopyFt
       /\ Newest.depth = treeManifest[last.arg].defaultCanopyFt
       /\ Newest.height = treeManifest[last.arg].defaultHeightFt

\* A white oak has been added with no override: 60 ft wide, 70 ft high.
C8_Witness ==
    /\ last.op = "addTree"
    /\ last.alert = ""
    /\ last.arg = "white_oak"
    /\ isNaN(last.d)
    /\ isNaN(last.d2)
    /\ Newest.isTree
    /\ Newest.width = Ft(60)
    /\ Newest.height = Ft(70)

(* ====================== properties: rotation ========================== *)
\* C5: after handleElementRotation(d) on a selected rotatable element, with d
\* a number, the stored rotation r is a number with 0 <= r < 360 and
\* r = d + 360 k for an integer k.
C5_RotationNormalized ==
    /\ last.op = "rotate"
    /\ last.arg \in ROTATABLE_ELEMENT_TYPES
    /\ last.d.k = "num"
    => LET r == elements[FindIndex(elements, selectedElement.id)].rotation
       IN  /\ r.k = "num"
           /\ r.v > 0 \/ (r.v = 0 /\ r.e >= 0)
           /\ r.v < 360
           /\ \E k \in -3..3 : r.v = last.d.v + 360 * k /\ r.e = last.d.e

(* ====================== properties: starting ========================== *)
\* C9: an explicit start for mode m ends with currentDrawingMode = m, the
\* sketch in drawing mode for m, and no in-progress vertex.
C9_StartEntersDrawing ==
    last.op = "start" =>
        /\ currentDrawingMode = last.arg
        /\ isInDrawingModeP5
        /\ currentDrawingPolygonTypeP5 = last.arg
        /\ currentPolygonPointsFt = <<>>

(* ====================== properties: deleting ========================== *)
\* The step just taken is a delete the user confirmed.
Deleted == last.op = "delete" /\ last.arg \notin {"none", "declined"}

\* C2: a confirmed delete leaves selectedElement null, the deleted object out
\* of the store and its scene node detached and disposed exactly once; no
\* node is ever disposed a second time.
C2_DeleteDisposesOnce ==
    /\ Deleted =>
           /\ selectedElement = NullSel
           /\ last.arg = "custom_house" => customHouse = <<>>
           /\ last.arg # "custom_house" => FindIndex(elements, last.d.v) = 0
           /\ last.ref # NoRef
           /\ ~sceneNodes[last.ref].inScene
           /\ sceneNodes[last.ref].disposed = 1
    /\ \A n \in 1..Len(sceneNodes) :
           /\ sceneNodes[n].disposed <= 1
           /\ sceneNodes[n].disposed = 1 => ~sceneNodes[n].inScene

\* A shed has just been deleted.
C2_Witness ==
    /\ Deleted
    /\ last.arg = "shed"
    /\ last.ref # NoRef
    /\ sceneNodes[last.ref].disposed = 1
    /\ selectedElement = NullSel

(* ====================== properties: save and load ===================== *)
\* C1: loading the file a save produced gives a store with as many elements
\* as the design had when it was saved, each of the same type at the same
\* (x, y), and a custom house with the same outline and wallHeight.
C1_SaveLoadRoundTrip ==
    last.op = "load" =>
        LET saved == savedDesign[1]
        IN  /\ Len(elements) = Len(saved.elements)
            /\ \A i \in 1..Len(saved.elements) :
                   /\ elements[i].type = saved.elements[i].type
                   /\ elements[i].x = saved.elements[i].x
                   /\ elements[i].y = saved.elements[i].y
            /\ (customHouse = <<>>) = (saved.customHouse = <<>>)
            /\ saved.customHouse # <<>> =>
                   /\ customHouse[1].outline = saved.customHouse[1].outline
                   /\ customHouse[1].wallHeight = saved.customHouse[1].wallHeight

\* A design of one element, placed under a panned view, and a house with
\* 10 ft walls has been saved and loaded.
C1_Witness ==
    /\ last.op = "load"
    /\ Len(elements) = 1
    /\ elements[1].x # (DEFAULT_LOT_WIDTH_FT - elements[1].width) \div 2
    /\ customHouse # <<>>
    /\ customHouse[1].wallHeight = Ft(10)
    /\ Len(customHouse[1].outline) = 3


(* ====================== properties: leaving drawing mode ============== *)
\* The sketch and the application are both out of drawing mode and no
\* in-progress vertex is left.
Idle ==
    /\ currentDrawingMode = "null"
    /\ ~isInDrawingModeP5
    /\ currentDrawingPolygonTypeP5 = "null"
    /\ currentPolygonPointsFt = <<>>

\* C11: a cancel ends in Idle with every accumulated vertex discarded and
\* lotConfig, customHouse and the element store as they were; a finish that
\* accepts its polygon also ends in Idle with an empty vertex list.
C11_CancelAndFinishReturnToIdle ==
    [][/\ last'.op = "cancel" =>
              Idle' /\ UNCHANGED <<lotConfig, customHouse, elements>>
       /\ (last'.op = "finish" /\ last'.alert = "") => Idle']_vars

\* A house drawing of three vertices has just been cancelled.
C11_Witness ==
    /\ last.op = "cancel"
    /\ last.arg = "home_builder_polygon"
    /\ last.d = Num(3)
    /\ Idle
    /\ customHouse = <<>>


(* ====================== properties: adding while drawing ============== *)
\* C12: handleAddElement called while a drawing mode is active only alerts:
\* the store, the scene nodes, nextElementId and the selection stay as they
\* were.
C12_AddRejectedWhileDrawing ==
    [][(last'.op = "add" /\ currentDrawingMode # "null") =>
           /\ last'.alert # ""
           /\ UNCHANGED <<elements, sceneNodes, nextElementId, selectedElement>>]_vars

\* A shed is in the store and selected, the house is being drawn, and a
\* second add has just been refused.
C12_Witness ==
    /\ last.op = "add"
    /\ last.alert # ""
    /\ currentDrawingMode = "home_builder_polygon"
    /\ Len(elements) = 1
    /\ selectedElement.kind = "shed"


(* ====================== properties: selecting while drawing =========== *)
\* What a select request may carry: null, an element id, the house id.
SelectRequests ==
    {IdNull} \cup {IdNum(id) : id \in 0..(MaxIds - 1)}
             \cup {IdHouse(id) : id \in 0..(MaxIds - 1)}

\* C13: while a drawing mode is active no select request changes the
\* selection: handleElementSelect leaves selectedElement as it was for every
\* element id, the house id and null, and so does the Escape key.
C13_NoSelectionChangeWhileDrawing ==
    [][currentDrawingMode # "null" =>
           /\ \A id \in SelectRequests :
                  handleElementSelect(Cur, id).selectedElement = selectedElement
           /\ last'.op \in {"select", "deselect"} => UNCHANGED selectedElement]_vars


(* ====================== properties: the selection ===================== *)
\* C14: selectedElement is null or refers to an object the store holds now:
\* a member of elements, or the current customHouse.
C14_SelectionInStore ==
    \/ selectedElement = NullSel
    \/ /\ selectedElement.kind = "custom_house"
       /\ customHouse # <<>>
       /\ customHouse[1].id = selectedElement.id
    \/ /\ selectedElement.kind \notin {"null", "undefined", "custom_house"}
       /\ \E i \in 1..Len(elements) :
              /\ elements[i].id = selectedElement.id
              /\ elements[i].type = selectedElement.kind


(* ====================== properties: the custom house ================== *)
\* The custom-house groups attached to the scene.
HouseNodes ==
    {n \in 1..Len(sceneNodes) :
        sceneNodes[n].tag = "custom_house" /\ sceneNodes[n].inScene}

\* C15: the scene holds at most one custom-house node, and holds one only
\* when customHouse is non-null and the node is customHouse.threeInstance.
C15_AtMostOneHouseNode ==
    /\ Cardinality(HouseNodes) <= 1
    /\ HouseNodes # {} =>
           /\ customHouse # <<>>
           /\ HouseNodes = {customHouse[1].node}


(* ====================== properties: store and scene in lockstep ======= *)
\* The groups tagged with an elementId that are attached to the scene.
ElementNodes ==
    {n \in 1..Len(sceneNodes) :
        sceneNodes[n].tag # "custom_house" /\ sceneNodes[n].inScene}

\* C16: the attached nodes tagged with an elementId and the elements of the
\* store correspond one to one: every element's threeInstance is an attached
\* node tagged with its id, no two elements share a node, and every attached
\* element node belongs to an element of the store.
C16_ElementNodesInLockstep ==
    /\ \A i \in 1..Len(elements) :
           /\ elements[i].node \in ElementNodes
           /\ sceneNodes[elements[i].node].id = elements[i].id
           /\ \A j \in 1..Len(elements) :
                  elements[j].node = elements[i].node => j = i
    /\ ElementNodes = {elements[i].node : i \in 1..Len(elements)}

\* A load has just replaced a store that held a shed: the old shed's node is
\* detached and the loaded shed has a node of its own.
C16_Witness ==
    /\ last.op = "load"
    /\ Len(elements) = 1
    /\ \E n \in 1..Len(sceneNodes) :
           /\ sceneNodes[n].tag = "shed"
           /\ ~sceneNodes[n].inScene
    /\ Cardinality(ElementNodes) = 1

(* ====================== properties: dragging ========================== *)
\* The element a drag step moved: the store's element with the id the step
\* recorded.
Dragged == elements[FindIndex(elements, last.d.v)]
\* A drag step that stored a position.
IsMove == last'.op = "drag" /\ elements' # elements
\* v is the whole multiple of 1 ft nearest to target.
IsSnapOf(v, target) == v % Ft(1) = 0 /\ 2 * Abs(v - target) <= Ft(1)

\* C17 (as stated): a move on a rectangular lot stores a position whose x and
\* y are whole multiples of 1 ft with 0 <= x <= lot width - element width and
\* 0 <= y <= lot depth - element depth; on a custom lot the position is on the
\* grid and not clamped.
C17_MoveSnappedAndClamped ==
    [][IsMove =>
          /\ Dragged'.x % Ft(1) = 0
          /\ Dragged'.y % Ft(1) = 0
          /\ ~lotConfig.isCustomShape =>
                 /\ 0 <= Dragged'.x /\ Dragged'.x <= lotConfig.width - Dragged'.width
                 /\ 0 <= Dragged'.y /\ Dragged'.y <= lotConfig.depth - Dragged'.depth]_vars

\* One coordinate of a move on a rectangular lot: the snapped target, held at
\* 0 or at the far bound (lot extent - element extent) when that is not below 0.
IsClampedSnap(v, target, farBound) ==
    /\ 0 <= v /\ v <= Max(0, farBound)
    /\ \/ IsSnapOf(v, target)
       \/ v = 0 /\ (2 * target <= Ft(1) \/ farBound <= 0)
       \/ v = farBound /\ 2 * target >= 2 * farBound - Ft(1)

\* C17 (amended): a move stores the target snapped to the 1 ft grid; on a
\* rectangular lot the snapped value is then clamped to
\* max(0, min(snapped, lot extent - element extent)), so it is on the grid
\* unless it is held at the far bound; on a custom lot it is not clamped.
C17_MoveSnappedThenClamped ==
    [][IsMove =>
          LET target == Pt(last'.pts[1].x + last'.pts[2].x,
                           last'.pts[1].y + last'.pts[2].y)
          IN  IF lotConfig.isCustomShape
              THEN /\ IsSnapOf(Dragged'.x, target.x)
                   /\ IsSnapOf(Dragged'.y, target.y)
              ELSE /\ IsClampedSnap(Dragged'.x, target.x,
                                    lotConfig.width - Dragged'.width)
                   /\ IsClampedSnap(Dragged'.y, target.y,
                                    lotConfig.depth - Dragged'.depth)]_vars

\* A shed on the default lot dragged far to the right and a little down: x is
\* held at lot width - 10 ft, which is not on the grid, y is on the grid.
C17_Witness ==
    /\ last.op = "drag"
    /\ ~lotConfig.isCustomShape
    /\ lotConfig.width = DEFAULT_LOT_WIDTH_FT
    /\ Dragged.x = lotConfig.width - Dragged.width
    /\ Dragged.x % Ft(1) # 0
    /\ Dragged.y % Ft(1) = 0
    /\ 0 < Dragged.y /\ Dragged.y < lotConfig.depth - Dragged.depth

(* ====================== properties: ids =============================== *)
\* Ids the store holds: of the elements and of the custom house.
StoreIds(elems, house) ==
    {elems[i].id : i \in 1..Len(elems)} \cup {house[i].id : i \in 1..Len(house)}
\* No two elements share an id, and every id of the store is below nextElementId.
IdsUniqueAndBelowNext ==
    /\ \A i, j \in 1..Len(elements) : elements[i].id = elements[j].id => i = j
    /\ \A id \in StoreIds(elements, customHouse) : id < nextElementId
\* The step gave a new element or a new house its id.
AssignsId ==
    \/ last'.op \in {"add", "addTree"} /\ Len(elements') = Len(elements) + 1
    \/ last'.op = "finish" /\ customHouse' # <<>> /\ customHouse' # customHouse
AssignedId ==
    IF last'.op = "finish" THEN customHouse'[1].id ELSE elements'[Len(elements')].id

\* C18 (as stated): ids in the store are unique and below nextElementId, and
\* each newly assigned id is greater than every id assigned before it.
C18_IdsUniqueAndMonotonic ==
    [][/\ IdsUniqueAndBelowNext'
       /\ AssignsId => AssignedId > maxAssignedId]_vars

\* C18 (amended): ids in the store are unique and below nextElementId, and
\* each newly assigned id is the value of nextElementId and is greater than
\* every id the store holds at that moment.
C18_IdsUniqueAndAboveStore ==
    [][/\ IdsUniqueAndBelowNext'
       /\ AssignsId =>
              /\ AssignedId = nextElementId
              /\ nextElementId' = nextElementId + 1
              /\ \A id \in StoreIds(elements, customHouse) : AssignedId > id]_vars

\* An element is added after a load lowered nextElementId: it gets an id that
\* had been given out before the load.
C18_Witness ==
    /\ last.op = "add"
    /\ Len(elements) = 2
    /\ elements[2].id = maxAssignedId
    /\ \E n \in 1..Len(sceneNodes) :
           /\ n # elements[2].node
           /\ sceneNodes[n].id = elements[2].id
           /\ ~sceneNodes[n].inScene

(* ====================== properties: failed loads ====================== *)
\* C19: a load that ends with the failure message leaves elements,
\* customHouse, lotConfig, selectedElement and nextElementId as they were, and
\* removes no node from the scene.
C19_FailedLoadChangesNothing ==
    [][(last'.op = "readFile" /\ last'.alert = "Failed to load design") =>
          /\ UNCHANGED <<elements, customHouse, lotConfig, selectedElement,
                         nextElementId>>
          /\ \A n \in 1..Len(sceneNodes) :
                 sceneNodes[n].inScene => sceneNodes'[n].inScene]_vars

(* ====================== properties: rejected input ==================== *)
\* A typed value that is not a number or not positive.
NotPositive(n) == n.k = "nan" \/ n.v <= 0

\* C20: handleUpdateLotRect with a width or depth that is not a positive
\* number shows its alert and leaves lotConfig unchanged (in every state, for
\* every such pair of typed values, and in every step that showed the
\* alert); handleUpdateCustomHouse with a wall
\* height that is not a positive number leaves customHouse and the scene
\* nodes unchanged.
C20_RejectedInputChangesNothing ==
    [][/\ \A w \in TypedLot, d \in TypedLot :
              (NotPositive(w) \/ NotPositive(d)) =>
                  LET s == handleUpdateLotRect(Cur, w, d)
                  IN  s.alert # "" /\ s.lotConfig = lotConfig /\ s.groundPlane = groundPlane
       /\ (last'.op = "updateLotRect" /\ last'.alert # "")
           => UNCHANGED <<lotConfig, groundPlane>>
       /\ (last'.op = "updateCustomHouse" /\ NotPositive(last'.d))
           => UNCHANGED <<customHouse, sceneNodes>>]_vars

\* A wall height of 0 typed for the selected house, whose walls an earlier
\* update had set to 12 ft, on a custom lot.
C20_Witness ==
    /\ last.op = "updateCustomHouse"
    /\ last.d = Num(0)
    /\ last.alert # ""
    /\ customHouse # <<>>
    /\ selectedElement.kind = "custom_house"
    /\ customHouse[1].wallHeight = Ft(12)
    /\ customHouse[1].roofType = "gable"
    /\ lotConfig.isCustomShape

(* ====================== properties: view and selection ================ *)
\* C26: in every reachable state an active drawing mode implies the 2D view.
C26_DrawingOnlyIn2D == currentDrawingMode # "null" => currentView = "2D"

\* A lot drawing is active in the 2D view and holds two vertices.
C26_Witness ==
    /\ currentDrawingMode = "lot_polygon"
    /\ isInDrawingModeP5
    /\ currentView = "2D"
    /\ Len(currentPolygonPointsFt) = 2

\* C27: after a house-polygon finish that was accepted, the selected element
\* is the custom house the finish created.
C27_FinishSelectsNewHouse ==
    [][(last'.op = "finish" /\ last'.arg = "home_builder_polygon" /\ last'.alert = "")
          => /\ customHouse' # <<>>
             /\ selectedElement' = RefTo(customHouse'[1])]_vars

(* ====================== properties: tree and plant flags ============== *)
\* C29: in every reachable state an element has isTree exactly when its type
\* is "tree" and isPlant exactly when its type is "plant".
C29_FlagsFollowType ==
    \A i \in 1..Len(elements) :
        /\ elements[i].isTree <=> elements[i].type = "tree"
        /\ elements[i].isPlant <=> elements[i].type = "plant"

(* ====================== properties: elements in the lot =============== *)
\* C30: while the lot is rectangular, every element of the store lies within
\* it: 0 <= x, 0 <= y, x + width <= lot width and y + depth <= lot depth.
C30_ElementsWithinRectLot ==
    ~lotConfig.isCustomShape =>
        \A i \in 1..Len(elements) :
            /\ 0 <= elements[i].x
            /\ 0 <= elements[i].y
            /\ elements[i].x + elements[i].width <= lotConfig.width
            /\ elements[i].y + elements[i].depth <= lotConfig.depth

(* ====================== properties: centred add ======================= *)
\* C23: the element an add creates is centred, before the clamp, on the feet
\* coordinate the 2D view shows at the centre of the canvas.
C23_AddCentredInViewport ==
    [][(last'.op = "add" /\ last'.alert = "" /\ last'.arg \in PaletteTypes) =>
          LET e == centredNewElement(Cur, last'.arg, NoData)
              shown == p5CanvasToLotCoords(Cur, 0, 0)
          IN  /\ e.x + e.width \div 2 = shown.x
              /\ e.y + e.depth \div 2 = shown.y]_vars

(* ====================== properties: pointer while drawing ============= *)
\* C24: while the sketch is in drawing mode, no mouse press, drag or release
\* changes the position of an element or of the custom house, or the
\* selection.
C24_PointerOnlyDrawsWhileDrawing ==
    [][(isInDrawingModeP5 /\ last'.op \in {"press", "pressObject", "drag", "release"})
          => UNCHANGED <<elements, customHouse, selectedElement>>]_vars

(* ====================== properties: the 3D projection ================= *)
\* C25: every element's scene node stands at
\* (x + width/2 - lotCenterX, y + depth/2 - lotCenterZ), the lot centre taken
\* from the current lot, and the placement of an add agrees with the
\* placement of a move.
C25_NodesProjectStore ==
    \A i \in 1..Len(elements) :
        LET el == elements[i]
            c == LotCenterFt(lotConfig)
        IN  /\ ThreePlacement(lotConfig, el) = MovePlacement(lotConfig, el)
            /\ el.node # NoRef =>
                   sceneNodes[el.node].position =
                       Pt(el.x + el.width \div 2 - c.x, el.y + el.depth \div 2 - c.y)

(* ====================== properties: model loading ==================== *)
AsyncTypeOK ==
    /\ \A n \in 1..Len(sceneNodes) : Len(sceneNodes[n].awaiting) <= MaxAwaiting
    /\ \A k \in DOMAIN modelCache : modelCache[k] \in {"pending", "fulfilled", "rejected"}

\* The promise that a step settled, as a set: empty for any other step.
Settled == {k \in DOMAIN modelCache : modelCache[k] = "pending" /\ modelCache'[k] # "pending"}

\* What the groups got from the settling of k: one object per load that waited.
Got(n, k) ==
    LET waited == Occurrences(sceneNodes[n].awaiting, k)
        had == Len(sceneNodes[n].children)
    IN  [i \in 1..waited |-> sceneNodes'[n].children[had + i]]

\* C21: model loading is never cancelled. Deleting an element leaves the
\* loads of its group waiting, and when their promise settles every one of
\* them adds its model or its placeholder to the group, in the scene or not.
C21_LoadsNeverCancelled ==
    [][\A n \in 1..Len(sceneNodes) :
          /\ last'.op = "delete" => sceneNodes'[n].awaiting = sceneNodes[n].awaiting
          /\ \A k \in Settled :
                 /\ Occurrences(sceneNodes'[n].awaiting, k) = 0
                 /\ Len(sceneNodes'[n].children) =
                        Len(sceneNodes[n].children) + Occurrences(sceneNodes[n].awaiting, k)
                 /\ \A i \in DOMAIN Got(n, k) : Got(n, k)[i] \in {Model(k), Fallback(k)}]_vars

\* A load came back for a group whose element had been deleted, and the group
\* now holds what the load added.
C21_Witness ==
    /\ last.op \in {"modelLoaded", "modelLoadFailed"}
    /\ last.ref # NoRef
    /\ ~sceneNodes[last.ref].inScene
    /\ sceneNodes[last.ref].children # <<>>
    /\ sceneNodes[last.ref].awaiting = <<>>
    /\ \A i \in 1..Len(elements) : elements[i].node # last.ref

\* The modelKey of the load addElementToThree starts for an element.
ModelKeyOf(elementData, season) ==
    CASE elementData.type = "house" -> HouseModelKey
      [] elementData.type = "plant" -> PlantModelKey
      [] elementData.type = "tree" -> TreeModelKey(elementData, season)

\* C22: a failed load is not a hard failure. When a promise is rejected every
\* group that waited for it gets the placeholder, the store is as before and
\* nothing is reported; an element added when its model's cached promise is
\* already rejected is stored, and its group holds the placeholder.
C22_FailedLoadFallsBack ==
    [][/\ last'.op = "modelLoadFailed" =>
             /\ \A k \in Settled, n \in 1..Len(sceneNodes) :
                    /\ Len(sceneNodes'[n].children) =
                           Len(sceneNodes[n].children) + Occurrences(sceneNodes[n].awaiting, k)
                    /\ \A i \in DOMAIN Got(n, k) : Got(n, k)[i] = Fallback(k)
             /\ elements' = elements
             /\ last'.alert = ""
       /\ (last'.op \in {"add", "addTree"} /\ Len(elements') = Len(elements) + 1) =>
             LET el == elements'[Len(elements')]
             IN  el.type \in {"house", "plant", "tree"} =>
                     LET k == ModelKeyOf(el, currentSeason)
                     IN  (k \in DOMAIN modelCache /\ modelCache[k] = "rejected") =>
                             /\ last'.alert = ""
                             /\ el.node # NoRef
                             /\ sceneNodes'[el.node].inScene
                             /\ sceneNodes'[el.node].children = <<Fallback(k)>>]_vars

\* A tree was added after the load of its model had failed: the rejection is
\* replayed from the cache and the tree stands in the store with a placeholder.
C22_Witness ==
    /\ last.op = "addTree"
    /\ Len(elements) > 0
    /\ LET el == elements[Len(elements)]
           k == TreeModelKey(el, currentSeason)
       IN  /\ el.type = "tree" /\ el.node = Len(sceneNodes)
           /\ Len(sceneNodes) > 1
           /\ k \in DOMAIN modelCache /\ modelCache[k] = "rejected"
           /\ sceneNodes[el.node].children = <<Fallback(k)>>

\* C28: once no load is pending, the group of every tree holds exactly one
\* object, the model or the placeholder of the current season.
C28_TreesShowCurrentSeason ==
    (\A n \in 1..Len(sceneNodes) : sceneNodes[n].awaiting = <<>>) =>
        \A i \in 1..Len(elements) :
            (elements[i].type = "tree" /\ elements[i].node # NoRef) =>
                LET k == TreeModelKey(elements[i], currentSeason)
                IN  sceneNodes[elements[i].node].children \in {<<Model(k)>>, <<Fallback(k)>>}

====
